---- MODULE Spec2Model ----
(***************************************************************************)
(* The audiobook reader: the split-word repair (fixWordsWithIterations,    *)
(* fixSplitWordsWithWordList, formatSentence), the useViewMode hook, the   *)
(* error handler, the Firestore rules of the books collection, the         *)
(* generate-audio and analyze-text routes and the components of the page.  *)
(* Each component has its own variables and its own specification; the     *)
(* variables of the other components stay at rest.                         *)
(*                                                                         *)
(* A string is a sequence of one-character strings; the empty string is    *)
(* <<>>.  JavaScript indexes arrays from 0, TLA+ sequences from 1: the     *)
(* scan index i and the loop index k of the model are the code's i + 1.    *)
(***************************************************************************)
EXTENDS Integers, Sequences, FiniteSets, TLC

VARIABLES
    wordSet,      \* the dictionary: a set of lower-case words
    input,        \* the argument of fixWordsWithIterations
    fixedText,    \* fixWordsWithIterations: the result of the last finished pass
    passes,       \* fixWordsWithIterations: the number of finished passes
    text,         \* fixSplitWordsWithWordList: its parameter after the replace
    tokens,       \* fixSplitWordsWithWordList: the filtered token list
    i,            \* fixSplitWordsWithWordList: the scan index
    fixedTokens,  \* fixSplitWordsWithWordList: the tokens emitted so far
    sentence,     \* formatSentence: the string built so far
    k,            \* formatSentence: the loop index
    pc,           \* the position of the call
    parked        \* the locals of a second call of fixWordsWithIterations that
                  \* is not running at the moment

\* the variables of one call, the dictionary apart
callVars == <<input, fixedText, passes, text, tokens, i, fixedTokens, sentence, k, pc>>
wordVars == <<wordSet, callVars, parked>>

VARIABLES
    viewMode,       \* useViewMode: the state as of the last render
    isLibraryView,  \* useViewMode: returned by the last render
    isReaderView,   \* useViewMode: returned by the last render
    pending,        \* useViewMode: the state updates queued since the last render
    logged,         \* useViewMode: the last message given to logger.debug
    history         \* the last two calls made on the hook and the mode in effect
                    \* before each (kept for the properties)

viewVars == <<viewMode, isLibraryView, isReaderView, pending, logged, history>>

VARIABLES
    error,              \* the error value given to the error handler
    context,            \* the context given with it
    userFriendlyError,  \* what the handler returned
    errorLog            \* the message given to logger.error

errorVars == <<error, context, userFriendlyError, errorLog>>

VARIABLES
    books,        \* Firestore: the documents of the books collection, by id
    creator,      \* who created each document (kept for the properties)
    readBy,       \* who was given whose document to read (kept for the properties)
    changedBy,    \* who updated or deleted whose document (kept for the properties)
    lastRequest   \* the last request on the collection and what the rules said

rulesVars == <<books, creator, readBy, changedBy, lastRequest>>

VARIABLES
    request,    \* generate-audio: the request being handled
    audioPc,    \* generate-audio: the position of the handler
    authToken,  \* generate-audio: the token taken from the Authorization header
    userId,     \* generate-audio: decodedToken.uid
    body,       \* generate-audio: the parsed request body
    data,       \* generate-audio: validationResult.data
    objects,    \* the objects written to the storage bucket, each with the
                \* token of the request that wrote it (kept for the properties)
    response,   \* generate-audio: the last response
    served      \* the number of requests answered

audioVars == <<request, audioPc, authToken, userId, body, data, objects, response, served>>

VARIABLES
    analyzeRequest,   \* analyze-text: the request being handled
    analyzePc,        \* analyze-text: the position of the handler
    analyzeData,      \* analyze-text: validationResult.data.text
    analyzeResponse,  \* analyze-text: the last response returned
    analyzeServed,    \* analyze-text: the number of responses returned
    analyzeTrace      \* analyze-text: what the handler did for this request
                      \* so far (kept for the properties)

analyzeVars ==
    <<analyzeRequest, analyzePc, analyzeData, analyzeResponse, analyzeServed, analyzeTrace>>

VARIABLES
    selectedBook,     \* useBookManager: the selected book as of the last render
    selectedPending,  \* useBookManager: the setSelectedBook updates queued since
    listed,           \* useBookManager: books as of the last render, by id
    library,          \* Firestore: the ids of the user's book documents
    storageFiles,     \* Storage: the files of the user's books
    services,         \* which of user, db and storage are available
    deletion,         \* handleDeleteBook: the call under way or finished last
    toasts            \* the toast shown last

appVars ==
    <<selectedBook, selectedPending, listed, library, storageFiles, services, deletion, toasts>>

VARIABLES
    homeBook,           \* HomeContent: selectedBook as of the last render
    homeView,           \* HomeContent: viewMode as of the last render
    extractionLoading,  \* HomeContent: textExtractionState.loading, last render
    homeQueue,          \* the state updates queued since the last render
    loads,              \* loadTextContent: the calls under way, by book
    aiMounted,          \* AiCard is rendered
    aiAudio,            \* AiCard: audioState as of the last render
    previousBook,       \* AiCard: the ref of usePreviousValue, a book id
    generating,         \* handleGenerateAudio: the calls under way
    bookDocs            \* Firestore: audioStorageUrl of each book document

homeVars ==
    <<homeBook, homeView, extractionLoading, homeQueue, loads, aiMounted, aiAudio,
      previousBook, generating, bookDocs>>

VARIABLES
    isUploading,      \* FileUpload: the state as of the last render
    uploadProgress,   \* FileUpload: the state as of the last render
    uploadQueue,      \* FileUpload: the state updates queued since
    uploadCall,       \* handleFileChange: the call under way or finished last
    onUploadSuccess,  \* FileUpload: whether the callback prop is given
    callbackCalls,    \* the files that onUploadSuccess was called with, each
                      \* with the number of its selection
    storedFiles,      \* Storage: the files uploaded, numbered likewise
    uploadToast       \* the title of the toast shown last

uploadVars ==
    <<isUploading, uploadProgress, uploadQueue, uploadCall, onUploadSuccess, callbackCalls,
      storedFiles, uploadToast>>

\* ExplanationPopover: the props and state of the last render, the state
\* updates not yet rendered, the generateExplanation calls not yet settled,
\* the server's AI flag, the last toast, and whether speech was paused
VARIABLES popoverSentence, isOpen, isLoading, explanation, popoverMounted, popoverQueue,
          explainCalls, isAiInitialized, popoverToast, speechPaused
popoverVars ==
    <<popoverSentence, isOpen, isLoading, explanation, popoverMounted, popoverQueue,
      explainCalls, isAiInitialized, popoverToast, speechPaused>>

\* useBookManager, the books effect: what useAuth returned at the last render,
\* whether db exists, the hook's state as of the last render, the state updates
\* not yet rendered, the snapshot listeners Firestore holds, the unsubscribe of
\* the last effect run, and the last toast
VARIABLES hookUser, authLoading, dbAvailable, hookMounted, hookBooks, booksLoading,
          hookQueue, activeListeners, unsubscribe, hookToast
listenerVars ==
    <<hookUser, authLoading, dbAvailable, hookMounted, hookBooks, booksLoading,
      hookQueue, activeListeners, unsubscribe, hookToast>>

\* the components of the page and the analyze-text route
laterVars == <<analyzeVars, appVars, homeVars, uploadVars, popoverVars, listenerVars>>

vars == <<wordVars, viewVars, errorVars, rulesVars, audioVars, laterVars>>

-----------------------------------------------------------------------------
(* Bounds of the model *)

\* longest text of the exhaustively enumerated inputs
MaxLen == 3
\* number of letters of the word that the split inputs cut into pieces
MaxPieces == 6

\* most state updates of useViewMode queued between two renders
MaxPending == 2
\* most parts of an error message
MaxParts == 2
\* most requests that the generate-audio route answers
MaxRequests == 2

(* Program constant *)
MAX_ITERATIONS == 3

-----------------------------------------------------------------------------
(* Characters *)

LowerLetters == <<"a", "b", "c", "d", "e", "f", "g", "h">>
UpperLetters == <<"A", "B", "C", "D", "E", "F", "G", "H">>
Letters == {LowerLetters[n] : n \in DOMAIN LowerLetters} \cup {UpperLetters[n] : n \in DOMAIN UpperLetters}
Digits == {"1"}

\* String.prototype.toUpperCase / toLowerCase on one character
CharToUpper(c) == IF \E n \in DOMAIN LowerLetters : LowerLetters[n] = c
                  THEN UpperLetters[CHOOSE n \in DOMAIN LowerLetters : LowerLetters[n] = c]
                  ELSE c
CharToLower(c) == IF \E n \in DOMAIN UpperLetters : UpperLetters[n] = c
                  THEN LowerLetters[CHOOSE n \in DOMAIN UpperLetters : UpperLetters[n] = c]
                  ELSE c
toUpperCase(s) == [n \in 1..Len(s) |-> CharToUpper(s[n])]
toLowerCase(s) == [n \in 1..Len(s) |-> CharToLower(s[n])]

\* the regular expression classes \s, \w and [a-zA-Z]
IsSpaceChar(c) == c \in {" ", "\t"}
IsWordChar(c) == c \in Letters \cup Digits \cup {"_"}
IsAlphaChar(c) == c \in Letters

\* /^[a-zA-Z]+$/.test(s)
IsAlphabetic(s) == Len(s) > 0 /\ \A n \in 1..Len(s) : IsAlphaChar(s[n])

Drop(s, n) == SubSeq(s, n + 1, Len(s))

\* least element of a non-empty set of numbers
Least(S) == CHOOSE n \in S : \A m \in S : n <= m

\* length of the longest prefix of s made of whitespace characters
SpacePrefixLen(s) ==
    LET other == {n \in 1..Len(s) : ~IsSpaceChar(s[n])}
    IN  IF other = {} THEN Len(s) ELSE Least(other) - 1

\* length of the longest prefix of s whose characters are all word characters,
\* or all not, as its first character is
ClassPrefixLen(s) ==
    LET other == {n \in 1..Len(s) : IsWordChar(s[n]) # IsWordChar(s[1])}
    IN  IF other = {} THEN Len(s) ELSE Least(other) - 1

\* String.prototype.trimEnd, trimStart and trim
RECURSIVE trimEnd(_)
trimEnd(s) == IF s # <<>> /\ IsSpaceChar(s[Len(s)]) THEN trimEnd(SubSeq(s, 1, Len(s) - 1)) ELSE s
trimStart(s) == Drop(s, SpacePrefixLen(s))
trim(s) == trimEnd(trimStart(s))

-----------------------------------------------------------------------------
(* fixSplitWordsWithWordList: tokenizing *)

\* mutant: the replace is left out
CollapseNothing(s) == s

\* text.replace(/\s{2,}/g, ' ')
RECURSIVE CollapseWhitespace(_)
CollapseWhitespace(s) ==
    IF s = <<>> THEN <<>>
    ELSE IF ~IsSpaceChar(Head(s)) THEN <<Head(s)>> \o CollapseWhitespace(Tail(s))
    ELSE LET n == SpacePrefixLen(s)
         IN  (IF n >= 2 THEN <<" ">> ELSE <<Head(s)>>) \o CollapseWhitespace(Drop(s, n))

\* the maximal runs of word characters and of other characters of a non-empty string
RECURSIVE Runs(_)
Runs(s) ==
    IF s = <<>> THEN <<>>
    ELSE LET n == ClassPrefixLen(s)
         IN  <<SubSeq(s, 1, n)>> \o Runs(Drop(s, n))

\* text.split(/\b/): the empty string has no word boundary and splits into [""]
SplitWordBoundary(s) == IF s = <<>> THEN << <<>> >> ELSE Runs(s)

NotOneSpace(x) == x # <<" ">>

\* text.split(/\b/).filter(x => x !== ' ')
Tokenize(s) == SelectSeq(SplitWordBoundary(s), NotOneSpace)

-----------------------------------------------------------------------------
(* fixSplitWordsWithWordList: the merge scan *)

\* const current = tokens[i].trim()
Current(toks, n) == trim(toks[n])

\* const next = tokens[i + 1]?.trim?.(): undefined past the end; undefined and
\* the empty string are both falsy, and the scan only tests next for truth
NextToken(toks, n) == IF n + 1 <= Len(toks) THEN trim(toks[n + 1]) ELSE <<>>

\* mutant: the test that current is no dictionary word is left out
MergeConditionUnguarded(toks, n, dict) ==
    /\ NextToken(toks, n) # <<>>
    /\ IsAlphabetic(Current(toks, n))
    /\ IsAlphabetic(NextToken(toks, n))

\* the outer condition of the scan
MergeCondition(toks, n, dict) ==
    /\ NextToken(toks, n) # <<>>
    /\ IsAlphabetic(Current(toks, n))
    /\ IsAlphabetic(NextToken(toks, n))
    /\ toLowerCase(Current(toks, n)) \notin dict

\* mutant: the merged form is looked up as written, not lower-cased
ShouldMergeCaseSensitive(toks, n, dict) ==
    /\ MergeCondition(toks, n, dict)
    /\ (Current(toks, n) \o NextToken(toks, n)) \in dict

\* the outer and the inner condition: the pair is pushed as one token
ShouldMerge(toks, n, dict) ==
    /\ MergeCondition(toks, n, dict)
    /\ toLowerCase(Current(toks, n) \o NextToken(toks, n)) \in dict

\* the whole while loop, from index n with out emitted so far
RECURSIVE MergeScan(_, _, _, _)
MergeScan(toks, n, out, dict) ==
    IF n > Len(toks) THEN out
    ELSE IF ShouldMerge(toks, n, dict)
         THEN MergeScan(toks, n + 2, Append(out, Current(toks, n) \o NextToken(toks, n)), dict)
         ELSE MergeScan(toks, n + 1, Append(out, Current(toks, n)), dict)

-----------------------------------------------------------------------------
(* formatSentence *)

punctuation == {<<".">>, <<"!">>, <<"?">>, <<",">>, <<";">>, <<":">>, <<"'">>, <<"-">>}
terminal == {".", "!", "?"}

\* word.charAt(0).toUpperCase() + word.slice(1)
Capitalize(word) == IF word = <<>> THEN <<>> ELSE <<CharToUpper(Head(word))>> \o Tail(word)

\* mutant: punctuation is appended like any other word
FormatWordSpacesAll(sent, word, n) ==
    IF n = 1 THEN sent \o Capitalize(word)
    ELSE sent \o <<" ">> \o word

\* one round of the for loop: the sentence after the word at index n
FormatWord(sent, word, n) ==
    IF word \in punctuation THEN trimEnd(sent) \o word
    ELSE IF n = 1 THEN sent \o Capitalize(word)
    ELSE sent \o <<" ">> \o word

\* mutant: the '.' is appended whatever the last character is
EnsureTerminalAlways(sent) == sent \o <<".">>

\* mutant: only '.' counts as terminal
EnsureTerminalPeriodOnly(sent) ==
    IF sent # <<>> /\ sent[Len(sent)] = "." THEN sent ELSE sent \o <<".">>

\* the last three statements: a '.' unless the last character is terminal
\* (the last character of the empty string is undefined, which is not terminal)
EnsureTerminal(sent) ==
    IF sent # <<>> /\ sent[Len(sent)] \in terminal THEN sent ELSE sent \o <<".">>

\* the whole for loop, from index n with sent built so far
RECURSIVE BuildSentence(_, _, _)
BuildSentence(words, n, sent) ==
    IF n > Len(words) THEN sent
    ELSE BuildSentence(words, n + 1, FormatWord(sent, words[n], n))

formatSentence(words) ==
    IF Len(words) = 0 THEN <<>> ELSE EnsureTerminal(BuildSentence(words, 1, <<>>))

\* one pass as a function of its argument
fixSplitWordsWithWordList(s, dict) ==
    formatSentence(MergeScan(Tokenize(CollapseWhitespace(s)), 1, <<>>, dict))

-----------------------------------------------------------------------------
(* The dictionary *)

\* new Set(words.map(w => w.trim().toLowerCase()))
LoadWordSet(words) == {toLowerCase(trim(w)) : w \in words}

-----------------------------------------------------------------------------
(* Inputs *)

\* the characters of the exhaustively enumerated texts: letters of both cases,
\* a space, another whitespace character, a comma and a terminal mark
InputChars == {"a", "b", "A", " ", "\t", ",", "!"}

RECURSIVE TextsOfLen(_)
TextsOfLen(n) ==
    IF n = 0 THEN {<<>>}
    ELSE {<<c>> \o t : c \in InputChars, t \in TextsOfLen(n - 1)}

ShortTexts == UNION {TextsOfLen(n) : n \in 0..MaxLen}

\* the lines of the word list that the dictionaries of the short texts are
\* loaded from: as written in the file, in either case, with blanks around
ShortWords == {<<"a">>, <<"A", "b">>, <<"b", "a", " ">>}

\* the word that the split inputs cut into pieces: the first MaxPieces letters
LongWord == SubSeq(LowerLetters, 1, MaxPieces)

Separators == {<<>>, <<" ">>, <<"\t">>}

\* the first n letters of LongWord, each followed by nothing, a space or a tab
RECURSIVE SplitsOf(_)
SplitsOf(n) ==
    IF n = 0 THEN {<<>>}
    ELSE {t \o <<LongWord[n]>> \o sep : t \in SplitsOf(n - 1), sep \in Separators}

\* LongWord cut into pieces in every way, no separator after the last letter
SplitTexts == {t \o <<LongWord[MaxPieces]>> : t \in SplitsOf(MaxPieces - 1)}

SuffixWords == {Drop(LongWord, n) : n \in 0..(MaxPieces - 2)}
PrefixWords == {SubSeq(LongWord, 1, n) : n \in 2..MaxPieces}
LongDictionaries == {SuffixWords, PrefixWords, SuffixWords \cup PrefixWords, {LongWord}}

\* texts with a digit, an underscore, a character that is neither a word
\* character nor punctuation, and runs of whitespace inside
SampleTexts ==
    { <<"a", " ", " ", " ", "b">>, <<"a", " ", "\t", "b", "!">>, <<"a", "1", " ", "b">>,
      <<"a", "_", "b">>, <<"a", "#", "b">>, <<"a", "b", "?">>, <<"a", ".", " ", "b", ".">>,
      <<"A", ",", "b", " ", "a">>, <<"a", " ", "B">>, <<"a", " ", "b", " ", "a">> }

-----------------------------------------------------------------------------
(* The calls as a state machine *)

\* mutant: every pass runs on the original text
ArgumentIsInput == input

\* the argument of the pass about to run or running
Argument == IF passes = 0 THEN input ELSE fixedText

\* no second call
NoCall ==
    [input |-> <<>>, fixedText |-> <<>>, passes |-> 0, text |-> <<>>, tokens |-> <<>>,
     i |-> 1, fixedTokens |-> <<>>, sentence |-> <<>>, k |-> 1, pc |-> "none"]

\* the locals of a call of fixWordsWithIterations before its first pass
CallInit ==
    /\ fixedText = <<>>
    /\ passes = 0
    /\ text = <<>>
    /\ tokens = <<>>
    /\ i = 1
    /\ fixedTokens = <<>>
    /\ sentence = <<>>
    /\ k = 1
    /\ pc = "call"

\* the word repair is not used: an empty dictionary and no call under way
WordAtRest ==
    /\ wordSet = {}
    /\ input = <<>>
    /\ CallInit
    /\ parked = NoCall

\* useViewMode as mounted: useState('library')
ViewInit ==
    /\ viewMode = "library"
    /\ isLibraryView = TRUE
    /\ isReaderView = FALSE
    /\ pending = <<>>
    /\ logged = <<>>
    /\ history = <<>>

\* a field that an object does not have
Absent == "absent"

\* no value returned yet
NoResult == [title |-> "", category |-> "none", shouldReport |-> FALSE]

\* the error handler is not called
ErrorAtRest ==
    /\ error = [kind |-> "null", message |-> <<>>]
    /\ context = [category |-> Absent]
    /\ userFriendlyError = NoResult
    /\ errorLog = <<>>

\* the books collection: two document ids, no document yet, no request yet
BookIds == {"book-1", "book-2"}
NoDoc == [userId |-> Absent, title |-> Absent]
NoRequest == [op |-> "none", by |-> Absent, book |-> Absent, allowed |-> FALSE]
RulesInit ==
    /\ books = [b \in BookIds |-> NoDoc]
    /\ creator = [b \in BookIds |-> Absent]
    /\ readBy = {}
    /\ changedBy = {}
    /\ lastRequest = NoRequest

\* a string that is not there: no header, no field, no token
Undefined == <<"undefined">>

\* a request body that is not JSON
NotJson == [json |-> FALSE, text |-> Undefined, bookId |-> Undefined, userId |-> Absent]

\* the generate-audio route before its first request
NoRequestYet == [authorization |-> Undefined, body |-> NotJson]
NoData == [text |-> Undefined, bookId |-> Undefined]
NoResponse == [status |-> 0, error |-> Absent]
AudioInit ==
    /\ request = NoRequestYet
    /\ audioPc = "idle"
    /\ authToken = Undefined
    /\ userId = Absent
    /\ body = NotJson
    /\ data = NoData
    /\ objects = {}
    /\ response = NoResponse
    /\ served = 0

\* the analyze-text route before its first request
NoBody == [kind |-> "notJson", text |-> Undefined]
NoAnalyzeRequest == [authorization |-> Undefined, body |-> NoBody]
NoAnalyzeResponse == [status |-> 0, text |-> Undefined, error |-> Absent]
AnalyzeInit ==
    /\ analyzeRequest = NoAnalyzeRequest
    /\ analyzePc = "idle"
    /\ analyzeData = Undefined
    /\ analyzeResponse = NoAnalyzeResponse
    /\ analyzeServed = 0
    /\ analyzeTrace = <<>>

\* the page before anything is mounted
Services == {"user", "db", "storage"}
NoDeletion ==
    [book |-> "none", pc |-> "none", closure |-> "null", steps |-> <<>>, failedAt |-> 0,
     cleared |-> FALSE, outcome |-> "none", selectedThen |-> "null"]
NoToast == [variant |-> "none", title |-> ""]
AppAtRest ==
    /\ selectedBook = "null"
    /\ selectedPending = <<>>
    /\ listed = {}
    /\ library = {}
    /\ storageFiles = {}
    /\ services = {}
    /\ deletion = NoDeletion
    /\ toasts = NoToast

\* HomeContent as mounted: no book selected, the library shown
NullBook == [id |-> "null", textContent |-> <<>>, audioStorageUrl |-> <<>>]
NoAudioState == [loading |-> FALSE, audioUrl |-> <<>>]
HomeAtRest ==
    /\ homeBook = NullBook
    /\ homeView = "library"
    /\ extractionLoading = FALSE
    /\ homeQueue = <<>>
    /\ loads = {}
    /\ aiMounted = FALSE
    /\ aiAudio = NoAudioState
    /\ previousBook = "undefined"
    /\ generating = {}
    /\ bookDocs = [b \in BookIds |-> <<>>]

\* FileUpload as mounted: useState(false) and useState(null); null is -1
NoProgress == -1
NoFile == [name |-> "", type |-> ""]
NoUpload == [pc |-> "none", file |-> NoFile, n |-> 0]
UploadAtRest ==
    /\ isUploading = FALSE
    /\ uploadProgress = NoProgress
    /\ uploadQueue = <<>>
    /\ uploadCall = NoUpload
    /\ onUploadSuccess = FALSE
    /\ callbackCalls = {}
    /\ storedFiles = {}
    /\ uploadToast = ""

\* useState<string | null>(null): <<>> is null, <<e>> the string e
NullExplanation == <<>>
\* the sentences the reader page hands to the popover
Sentences == {"", "It was a bright cold day."}
PopoverAtRest ==
    /\ popoverSentence = ""
    /\ isOpen = FALSE
    /\ isLoading = FALSE
    /\ explanation = NullExplanation
    /\ popoverMounted = FALSE
    /\ popoverQueue = <<>>
    /\ explainCalls = <<>>
    /\ isAiInitialized = FALSE
    /\ popoverToast = NoToast
    /\ speechPaused = FALSE

\* useAuth: no user
NoUser == "null"
ListenerAtRest ==
    /\ hookUser = NoUser
    /\ authLoading = TRUE
    /\ dbAvailable = FALSE
    /\ hookMounted = FALSE
    /\ hookBooks = {}
    /\ booksLoading = TRUE
    /\ hookQueue = <<>>
    /\ activeListeners = <<>>
    /\ unsubscribe = "undefined"
    /\ hookToast = NoToast

\* the components of the page and the analyze-text route are not used
LaterAtRest == AnalyzeInit /\ AppAtRest /\ HomeAtRest /\ UploadAtRest /\ PopoverAtRest /\ ListenerAtRest

\* the components other than the word repair
notWordVars == <<viewVars, errorVars, rulesVars, audioVars, laterVars>>
NotWordAtRest == ViewInit /\ ErrorAtRest /\ RulesInit /\ AudioInit /\ LaterAtRest

Init ==
    /\ \/ /\ input \in ShortTexts \cup SampleTexts
          /\ wordSet \in {LoadWordSet(words) : words \in SUBSET ShortWords}
       \/ /\ input \in SplitTexts
          /\ wordSet \in {LoadWordSet(words) : words \in LongDictionaries}
    /\ CallInit
    /\ parked = NoCall
    /\ NotWordAtRest

\* fixSplitWordsWithWordList is entered: replace, split and filter
StartPass ==
    /\ pc = "call"
    /\ text' = CollapseWhitespace(Argument)
    /\ tokens' = Tokenize(text')
    /\ fixedTokens' = <<>>
    /\ i' = 1
    /\ pc' = "scan"
    /\ UNCHANGED <<wordSet, input, fixedText, passes, sentence, k>>

\* mutant: a merge takes the merged word out of the dictionary
MergeStepConsumesWord ==
    /\ pc = "scan"
    /\ i <= Len(tokens)
    /\ ShouldMerge(tokens, i, wordSet)
    /\ fixedTokens' = Append(fixedTokens, Current(tokens, i) \o NextToken(tokens, i))
    /\ i' = i + 2
    /\ wordSet' = wordSet \ {toLowerCase(Current(tokens, i) \o NextToken(tokens, i))}
    /\ UNCHANGED <<input, fixedText, passes, text, tokens, sentence, k, pc>>

\* mutant: after a merge the scan moves on by one token only
MergeStepAdvancesOne ==
    /\ pc = "scan"
    /\ i <= Len(tokens)
    /\ ShouldMerge(tokens, i, wordSet)
    /\ fixedTokens' = Append(fixedTokens, Current(tokens, i) \o NextToken(tokens, i))
    /\ i' = i + 1
    /\ UNCHANGED <<wordSet, input, fixedText, passes, text, tokens, sentence, k, pc>>

\* mutant: the lower-cased merged form is pushed
MergeStepPushesLowered ==
    /\ pc = "scan"
    /\ i <= Len(tokens)
    /\ ShouldMerge(tokens, i, wordSet)
    /\ fixedTokens' = Append(fixedTokens, toLowerCase(Current(tokens, i) \o NextToken(tokens, i)))
    /\ i' = i + 2
    /\ UNCHANGED <<wordSet, input, fixedText, passes, text, tokens, sentence, k, pc>>

\* one round of the while loop that pushes current + next
MergeStep ==
    /\ pc = "scan"
    /\ i <= Len(tokens)
    /\ ShouldMerge(tokens, i, wordSet)
    /\ fixedTokens' = Append(fixedTokens, Current(tokens, i) \o NextToken(tokens, i))
    /\ i' = i + 2
    /\ UNCHANGED <<wordSet, input, fixedText, passes, text, tokens, sentence, k, pc>>

\* mutant: the scan index is not advanced
KeepStepStays ==
    /\ pc = "scan"
    /\ i <= Len(tokens)
    /\ ~ShouldMerge(tokens, i, wordSet)
    /\ fixedTokens' = Append(fixedTokens, Current(tokens, i))
    /\ i' = i
    /\ UNCHANGED <<wordSet, input, fixedText, passes, text, tokens, sentence, k, pc>>

\* one round of the while loop that pushes current
KeepStep ==
    /\ pc = "scan"
    /\ i <= Len(tokens)
    /\ ~ShouldMerge(tokens, i, wordSet)
    /\ fixedTokens' = Append(fixedTokens, Current(tokens, i))
    /\ i' = i + 1
    /\ UNCHANGED <<wordSet, input, fixedText, passes, text, tokens, sentence, k, pc>>

\* the while loop is left and formatSentence is entered with no token
FormatNothing ==
    /\ pc = "scan"
    /\ i > Len(tokens)
    /\ Len(fixedTokens) = 0
    /\ sentence' = <<>>
    /\ pc' = "return"
    /\ UNCHANGED <<wordSet, input, fixedText, passes, text, tokens, i, fixedTokens, k>>

\* the while loop is left and formatSentence is entered with tokens
StartFormat ==
    /\ pc = "scan"
    /\ i > Len(tokens)
    /\ Len(fixedTokens) > 0
    /\ sentence' = <<>>
    /\ k' = 1
    /\ pc' = "format"
    /\ UNCHANGED <<wordSet, input, fixedText, passes, text, tokens, i, fixedTokens>>

\* one round of the for loop
FormatStep ==
    /\ pc = "format"
    /\ k <= Len(fixedTokens)
    /\ sentence' = FormatWord(sentence, fixedTokens[k], k)
    /\ k' = k + 1
    /\ UNCHANGED <<wordSet, input, fixedText, passes, text, tokens, i, fixedTokens, pc>>

\* the for loop is left: terminal punctuation
FinishFormat ==
    /\ pc = "format"
    /\ k > Len(fixedTokens)
    /\ sentence' = EnsureTerminal(sentence)
    /\ pc' = "return"
    /\ UNCHANGED <<wordSet, input, fixedText, passes, text, tokens, i, fixedTokens, k>>

\* mutant: the loop runs one round more
ReturnPassOneMore ==
    /\ pc = "return"
    /\ fixedText' = sentence
    /\ passes' = passes + 1
    /\ pc' = IF passes' < 2 + MAX_ITERATIONS THEN "call" ELSE "done"
    /\ text' = <<>>
    /\ tokens' = <<>>
    /\ i' = 1
    /\ fixedTokens' = <<>>
    /\ sentence' = <<>>
    /\ k' = 1
    /\ UNCHANGED <<wordSet, input>>

\* mutant: the loop runs one round fewer
ReturnPassOneFewer ==
    /\ pc = "return"
    /\ fixedText' = sentence
    /\ passes' = passes + 1
    /\ pc' = IF passes' < MAX_ITERATIONS THEN "call" ELSE "done"
    /\ text' = <<>>
    /\ tokens' = <<>>
    /\ i' = 1
    /\ fixedTokens' = <<>>
    /\ sentence' = <<>>
    /\ k' = 1
    /\ UNCHANGED <<wordSet, input>>

\* the pass returns to fixWordsWithIterations, which calls again or returns;
\* the locals of the pass are gone
ReturnPass ==
    /\ pc = "return"
    /\ fixedText' = sentence
    /\ passes' = passes + 1
    /\ pc' = IF passes' < 1 + MAX_ITERATIONS THEN "call" ELSE "done"
    /\ text' = <<>>
    /\ tokens' = <<>>
    /\ i' = 1
    /\ fixedTokens' = <<>>
    /\ sentence' = <<>>
    /\ k' = 1
    /\ UNCHANGED <<wordSet, input>>

Next ==
    \/ StartPass /\ UNCHANGED <<parked, notWordVars>>
    \/ MergeStep /\ UNCHANGED <<parked, notWordVars>>
    \/ KeepStep /\ UNCHANGED <<parked, notWordVars>>
    \/ FormatNothing /\ UNCHANGED <<parked, notWordVars>>
    \/ StartFormat /\ UNCHANGED <<parked, notWordVars>>
    \/ FormatStep /\ UNCHANGED <<parked, notWordVars>>
    \/ FinishFormat /\ UNCHANGED <<parked, notWordVars>>
    \/ ReturnPass /\ UNCHANGED <<parked, notWordVars>>

Spec == Init /\ [][Next]_vars

-----------------------------------------------------------------------------
(* Two calls of fixWordsWithIterations under way at once: one runs, the other
   is parked with its locals; they share the dictionary and nothing else *)

\* the texts and the word lists of the two calls
CallTexts ==
    { <<"a", " ", "b">>, <<"b", " ", "a", "!">>, <<" ">>, <<"a", " ", "b", " ", "c">> }
CallWordLists ==
    { {<<"A", "b">>, <<"b", "a", " ">>},
      {<<"a", "b", "c">>, <<"b", "c">>},
      {<<"A", "b">>, <<"a", "b", "c">>} }

\* the locals of the running call
Locals ==
    [input |-> input, fixedText |-> fixedText, passes |-> passes, text |-> text,
     tokens |-> tokens, i |-> i, fixedTokens |-> fixedTokens, sentence |-> sentence,
     k |-> k, pc |-> pc]

\* the running call is set aside and the parked one goes on where it was
Switch ==
    /\ parked.pc # "none"
    /\ input' = parked.input
    /\ fixedText' = parked.fixedText
    /\ passes' = parked.passes
    /\ text' = parked.text
    /\ tokens' = parked.tokens
    /\ i' = parked.i
    /\ fixedTokens' = parked.fixedTokens
    /\ sentence' = parked.sentence
    /\ k' = parked.k
    /\ pc' = parked.pc
    /\ parked' = Locals
    /\ UNCHANGED wordSet

InitCalls ==
    /\ wordSet \in {LoadWordSet(words) : words \in CallWordLists}
    /\ input \in CallTexts
    /\ CallInit
    /\ parked \in {[NoCall EXCEPT !.input = t, !.pc = "call"] : t \in CallTexts}
    /\ NotWordAtRest

NextCalls ==
    \/ StartPass /\ UNCHANGED <<parked, notWordVars>>
    \/ MergeStep /\ UNCHANGED <<parked, notWordVars>>
    \/ KeepStep /\ UNCHANGED <<parked, notWordVars>>
    \/ FormatNothing /\ UNCHANGED <<parked, notWordVars>>
    \/ StartFormat /\ UNCHANGED <<parked, notWordVars>>
    \/ FormatStep /\ UNCHANGED <<parked, notWordVars>>
    \/ FinishFormat /\ UNCHANGED <<parked, notWordVars>>
    \/ ReturnPass /\ UNCHANGED <<parked, notWordVars>>
    \/ Switch /\ UNCHANGED notWordVars

SpecCalls == InitCalls /\ [][NextCalls]_vars

TypeOK ==
    /\ pc \in {"call", "scan", "format", "return", "done"}
    /\ passes \in 0..(1 + MAX_ITERATIONS)
    /\ i \in 1..(Len(tokens) + 1)
    /\ k \in 1..(Len(fixedTokens) + 1)

-----------------------------------------------------------------------------
(* useViewMode: a state updated through a queue that the next render applies;
   the callbacks see the viewMode of the render that made them *)

ViewMode == {"library", "reader"}

\* the book argument of goToReader and toggleView: none, or a book by its title
BookTitles == {"Test Book"}
BookArgs == {"none"} \cup BookTitles

\* the mode that the next render shows
InEffect == IF pending = <<>> THEN viewMode ELSE pending[Len(pending)]

\* the state setter that useState returns: the update waits for the render
setViewMode(mode) ==
    /\ pending' = Append(pending, mode)
    /\ UNCHANGED <<viewMode, isLibraryView, isReaderView>>

goToLibrary ==
    /\ logged' = <<"Navigating to library view">>
    /\ setViewMode("library")

goToReader(book) ==
    /\ logged' = IF book # "none"
                  THEN <<"Navigating to reader view", " for book: ", book>>
                  ELSE <<"Navigating to reader view">>
    /\ setViewMode("reader")

toggleView(book) ==
    IF viewMode = "library" THEN goToReader(book) ELSE goToLibrary

\* the call is noted with its argument and the mode in effect before it; the
\* last two calls are kept
Note(op, arg) ==
    LET h == Append(history, [op |-> op, arg |-> arg, from |-> InEffect])
    IN  history' = IF Len(h) > 2 THEN Tail(h) ELSE h

\* a component calls one of the functions that the hook returned
CallGoToLibrary ==
    /\ Len(pending) < MaxPending
    /\ goToLibrary
    /\ Note("goToLibrary", "none")

CallGoToReader(book) ==
    /\ Len(pending) < MaxPending
    /\ goToReader(book)
    /\ Note("goToReader", book)

CallSetViewMode(mode) ==
    /\ Len(pending) < MaxPending
    /\ setViewMode(mode)
    /\ UNCHANGED logged
    /\ Note("setViewMode", mode)

CallToggleView(book) ==
    /\ Len(pending) < MaxPending
    /\ toggleView(book)
    /\ Note("toggleView", book)

\* mutant: the render applies the first queued update only
RenderTakesFirst ==
    /\ pending # <<>>
    /\ viewMode' = pending[1]
    /\ isLibraryView' = (viewMode' = "library")
    /\ isReaderView' = (viewMode' = "reader")
    /\ pending' = <<>>
    /\ UNCHANGED <<logged, history>>

\* the hook runs again: the queued updates are applied in order, the last one
\* stays, and the returned flags are computed from the new state
Render ==
    /\ pending # <<>>
    /\ viewMode' = pending[Len(pending)]
    /\ isLibraryView' = (viewMode' = "library")
    /\ isReaderView' = (viewMode' = "reader")
    /\ pending' = <<>>
    /\ UNCHANGED <<logged, history>>

notViewVars == <<wordVars, errorVars, rulesVars, audioVars, laterVars>>
NotViewAtRest == WordAtRest /\ ErrorAtRest /\ RulesInit /\ AudioInit /\ LaterAtRest

InitView == ViewInit /\ NotViewAtRest

NextView ==
    \/ CallGoToLibrary /\ UNCHANGED notViewVars
    \/ \E book \in BookArgs : CallGoToReader(book) /\ UNCHANGED notViewVars
    \/ \E mode \in ViewMode : CallSetViewMode(mode) /\ UNCHANGED notViewVars
    \/ \E book \in BookArgs : CallToggleView(book) /\ UNCHANGED notViewVars
    \/ Render /\ UNCHANGED notViewVars

SpecView == InitView /\ [][NextView]_vars

-----------------------------------------------------------------------------
(* The error handler.  A message is a sequence of parts, written one after
   the other with ": " between them; includes(message, pattern) is decided
   part by part, from the patterns that occur in each part as substrings
   (no pattern of the handler occurs across a ": ") *)

AUTHENTICATION == "authentication"
FIREBASE == "firebase"
AI == "ai"
FILE_PROCESSING == "file_processing"
NETWORK == "network"
VALIDATION == "validation"
UNKNOWN == "unknown"
ErrorCategory == {AUTHENTICATION, FIREBASE, AI, FILE_PROCESSING, NETWORK, VALIDATION, UNKNOWN}

\* the parts that messages are made of: texts with a pattern of each category,
\* and texts that differ from a pattern by the case of a letter or have none
Parts ==
    { "auth/invalid-credential", "auth/email-already-in-use", "auth/weak-password",
      "auth/too-many-requests", "Firebase", "firestore", "AI is not initialized",
      "rate limit", "API key not valid", "Failed to read file", "fetch failed",
      "Network error", "validation", "Invalid input",
      "firebase", "Validation failed", "network error", "Something else" }

\* the patterns of the handler that occur in a part as substrings (case matters)
PatternsIn(part) ==
    CASE part = "auth/invalid-credential" -> {"auth/invalid-credential", "auth/"}
      [] part = "auth/email-already-in-use" -> {"auth/email-already-in-use", "auth/"}
      [] part = "auth/weak-password" -> {"auth/weak-password", "auth/"}
      [] part = "auth/too-many-requests" -> {"auth/"}
      [] part \in { "Firebase", "firestore", "AI is not initialized", "rate limit",
                    "API key not valid", "Failed to read file", "fetch failed",
                    "Network error", "validation", "Invalid input" } -> {part}
      [] OTHER -> {}

\* message.includes(pattern)
includes(message, pattern) == \E n \in 1..Len(message) : pattern \in PatternsIn(message[n])

RECURSIVE MessagesOfLen(_)
MessagesOfLen(n) ==
    IF n = 0 THEN {<<>>}
    ELSE {<<part>> \o m : part \in Parts, m \in MessagesOfLen(n - 1)}

Messages == UNION {MessagesOfLen(n) : n \in 0..MaxParts}

\* the values that are thrown: an Error with a message, a string, and values
\* that are neither
ErrorValues ==
    {[kind |-> "Error", message |-> m] : m \in Messages}
        \cup {[kind |-> "string", message |-> m] : m \in Messages}
        \cup {[kind |-> v, message |-> <<>>] : v \in {"null", "undefined", "object", "number"}}

\* String(error) for a value that is not an Error
String(value) ==
    CASE value.kind = "string" -> value.message
      [] value.kind = "null" -> <<"null">>
      [] value.kind = "undefined" -> <<"undefined">>
      [] value.kind = "object" -> <<"[object Object]">>
      [] value.kind = "number" -> <<"404">>

\* error instanceof Error ? error.message : String(error)
errorMessage(err) == IF err.kind = "Error" THEN err.message ELSE String(err)

authPatterns ==
    { "auth/invalid-credential", "auth/user-not-found", "auth/wrong-password",
      "auth/email-already-in-use", "auth/weak-password", "auth/invalid-email",
      "auth/api-key-not-valid", "auth/operation-not-allowed" }
aiPatterns ==
    { "AI is not initialized", "API key not valid", "rate limit",
      "Billing account not configured", "Failed to generate" }
filePatterns ==
    { "Failed to read file", "Unsupported file type", "File is corrupted", "PDF parsing failed" }
networkPatterns == {"fetch failed", "ECONNREFUSED", "Network error", "Connection timeout"}

isAuthError(message) == \E pattern \in authPatterns : includes(message, pattern)
isFirebaseError(message) ==
    includes(message, "Firebase") \/ includes(message, "firestore") \/ includes(message, "auth/")
isAIError(message) == \E pattern \in aiPatterns : includes(message, pattern)
isFileError(message) == \E pattern \in filePatterns : includes(message, pattern)
isNetworkError(message) == \E pattern \in networkPatterns : includes(message, pattern)
isValidationError(message) == includes(message, "validation") \/ includes(message, "Invalid input")

handleAuthError(message) ==
    IF includes(message, "auth/invalid-credential")
    THEN [title |-> "Login Failed", category |-> AUTHENTICATION, shouldReport |-> FALSE]
    ELSE IF includes(message, "auth/email-already-in-use")
    THEN [title |-> "Account Exists", category |-> AUTHENTICATION, shouldReport |-> FALSE]
    ELSE [title |-> "Authentication Error", category |-> AUTHENTICATION, shouldReport |-> TRUE]

handleFirebaseError ==
    [title |-> "Service Unavailable", category |-> FIREBASE, shouldReport |-> TRUE]

handleAIError(message) ==
    IF includes(message, "AI is not initialized")
    THEN [title |-> "AI Service Unavailable", category |-> AI, shouldReport |-> TRUE]
    ELSE IF includes(message, "rate limit")
    THEN [title |-> "Request Limit Reached", category |-> AI, shouldReport |-> FALSE]
    ELSE [title |-> "AI Service Error", category |-> AI, shouldReport |-> TRUE]

handleFileError ==
    [title |-> "File Processing Error", category |-> FILE_PROCESSING, shouldReport |-> FALSE]
handleNetworkError ==
    [title |-> "Connection Error", category |-> NETWORK, shouldReport |-> FALSE]
handleValidationError ==
    [title |-> "Invalid Input", category |-> VALIDATION, shouldReport |-> FALSE]

\* mutant: the category of the context is not looked at
createUserFriendlyErrorByMessageOnly(err, ctx) ==
    LET message == errorMessage(err)
    IN  IF isAuthError(message) THEN handleAuthError(message)
        ELSE IF isFirebaseError(message) THEN handleFirebaseError
        ELSE IF isAIError(message) THEN handleAIError(message)
        ELSE IF isFileError(message) THEN handleFileError
        ELSE IF isNetworkError(message) THEN handleNetworkError
        ELSE IF isValidationError(message) THEN handleValidationError
        ELSE [title |-> "Something went wrong", category |-> UNKNOWN, shouldReport |-> TRUE]

\* mutant: the Firebase test comes before the authentication test
createUserFriendlyErrorFirebaseFirst(err, ctx) ==
    LET message == errorMessage(err)
    IN  IF ctx.category = FIREBASE \/ isFirebaseError(message) THEN handleFirebaseError
        ELSE IF ctx.category = AUTHENTICATION \/ isAuthError(message) THEN handleAuthError(message)
        ELSE IF ctx.category = AI \/ isAIError(message) THEN handleAIError(message)
        ELSE IF ctx.category = FILE_PROCESSING \/ isFileError(message) THEN handleFileError
        ELSE IF ctx.category = NETWORK \/ isNetworkError(message) THEN handleNetworkError
        ELSE IF ctx.category = VALIDATION \/ isValidationError(message) THEN handleValidationError
        ELSE [title |-> "Something went wrong", category |-> UNKNOWN, shouldReport |-> TRUE]

createUserFriendlyError(err, ctx) ==
    LET message == errorMessage(err)
    IN  IF ctx.category = AUTHENTICATION \/ isAuthError(message) THEN handleAuthError(message)
        ELSE IF ctx.category = FIREBASE \/ isFirebaseError(message) THEN handleFirebaseError
        ELSE IF ctx.category = AI \/ isAIError(message) THEN handleAIError(message)
        ELSE IF ctx.category = FILE_PROCESSING \/ isFileError(message) THEN handleFileError
        ELSE IF ctx.category = NETWORK \/ isNetworkError(message) THEN handleNetworkError
        ELSE IF ctx.category = VALIDATION \/ isValidationError(message) THEN handleValidationError
        ELSE [title |-> "Something went wrong", category |-> UNKNOWN, shouldReport |-> TRUE]

\* { category: ErrorCategory.UNKNOWN, originalError: error, ...context }
fullContext(err, ctx) ==
    [category |-> IF ctx.category = Absent THEN UNKNOWN ELSE ctx.category,
     originalError |-> err]

Components == {"BookReader"}

\* errorHandler.handleError(error, context), context without a component
handleError ==
    /\ userFriendlyError = NoResult
    /\ errorLog' = <<"Error in ", "unknown component">>
    /\ userFriendlyError' = createUserFriendlyError(error, fullContext(error, context))
    /\ UNCHANGED <<error, context>>

\* handleComponentError(error, component, context):
\* errorHandler.handleError(error, { component, ...context })
handleComponentError(component) ==
    /\ userFriendlyError = NoResult
    /\ errorLog' = <<"Error in ", component>>
    /\ userFriendlyError' = createUserFriendlyError(error, fullContext(error, context))
    /\ UNCHANGED <<error, context>>

notErrorVars == <<wordVars, viewVars, rulesVars, audioVars, laterVars>>
NotErrorAtRest == WordAtRest /\ ViewInit /\ RulesInit /\ AudioInit /\ LaterAtRest

InitError ==
    /\ error \in ErrorValues
    /\ context \in {[category |-> c] : c \in ErrorCategory \cup {Absent}}
    /\ userFriendlyError = NoResult
    /\ errorLog = <<>>
    /\ NotErrorAtRest

NextError ==
    \/ handleError /\ UNCHANGED notErrorVars
    \/ \E component \in Components : handleComponentError(component) /\ UNCHANGED notErrorVars

SpecError == InitError /\ [][NextError]_vars

-----------------------------------------------------------------------------
(* The Firestore rules of the books collection.  A request comes with
   request.auth (a signed-in user's uid, or null); resource is the stored
   document (null when there is none) and request.resource the document as
   it would be after the write.  A rule that reads a field of null or a field
   that is not there evaluates to an error, which denies. *)

Users == {"user-1", "user-2"}
NoAuth == "null"
Titles == {"Title A", "Title B"}

\* the documents that a client may send: any userId, or none, and a title
Documents == [userId : Users \cup {Absent}, title : Titles]

\* allow read: if request.auth != null && resource.data.userId == request.auth.uid
allowRead(auth, resource) ==
    auth # NoAuth /\ resource # NoDoc /\ resource.userId = auth

\* allow create: if request.auth != null
\*                  && request.resource.data.userId == request.auth.uid
allowCreate(auth, requestResource) ==
    auth # NoAuth /\ requestResource.userId = auth

\* mutant: the update rule without its last clause
allowUpdateAnyOwner(auth, resource, requestResource) ==
    auth # NoAuth /\ resource # NoDoc /\ resource.userId = auth

\* allow update: if request.auth != null && resource.data.userId == request.auth.uid
\*                  && request.resource.data.userId == resource.data.userId
allowUpdate(auth, resource, requestResource) ==
    /\ auth # NoAuth /\ resource # NoDoc /\ resource.userId = auth
    /\ requestResource.userId = resource.userId

\* allow delete: if request.auth != null && resource.data.userId == request.auth.uid
allowDelete(auth, resource) ==
    auth # NoAuth /\ resource # NoDoc /\ resource.userId = auth

Request(op, auth, b, allowed) ==
    lastRequest' = [op |-> op, by |-> auth, book |-> b, allowed |-> allowed]

\* getDoc, or a document of a query: a read
Get(auth, b) ==
    /\ Request("read", auth, b, allowRead(auth, books[b]))
    /\ readBy' = IF allowRead(auth, books[b])
                 THEN readBy \cup {[by |-> auth, owner |-> books[b].userId]}
                 ELSE readBy
    /\ UNCHANGED <<books, creator, changedBy>>

\* addDoc or setDoc where there is no document: a create
Create(auth, b, doc) ==
    /\ books[b] = NoDoc
    /\ Request("create", auth, b, allowCreate(auth, doc))
    /\ IF allowCreate(auth, doc)
       THEN /\ books' = [books EXCEPT ![b] = doc]
            /\ creator' = [creator EXCEPT ![b] = auth]
       ELSE UNCHANGED <<books, creator>>
    /\ UNCHANGED <<readBy, changedBy>>

\* updateDoc, or setDoc where there is a document: an update
Update(auth, b, doc) ==
    /\ Request("update", auth, b, allowUpdate(auth, books[b], doc))
    /\ IF allowUpdate(auth, books[b], doc)
       THEN /\ books' = [books EXCEPT ![b] = doc]
            /\ changedBy' = changedBy \cup {[by |-> auth, owner |-> books[b].userId]}
       ELSE UNCHANGED <<books, changedBy>>
    /\ UNCHANGED <<creator, readBy>>

\* deleteDoc
Delete(auth, b) ==
    /\ Request("delete", auth, b, allowDelete(auth, books[b]))
    /\ IF allowDelete(auth, books[b])
       THEN /\ books' = [books EXCEPT ![b] = NoDoc]
            /\ creator' = [creator EXCEPT ![b] = Absent]
            /\ changedBy' = changedBy \cup {[by |-> auth, owner |-> books[b].userId]}
       ELSE UNCHANGED <<books, creator, changedBy>>
    /\ UNCHANGED readBy

notRulesVars == <<wordVars, viewVars, errorVars, audioVars, laterVars>>
NotRulesAtRest == WordAtRest /\ ViewInit /\ ErrorAtRest /\ AudioInit /\ LaterAtRest

InitRules == RulesInit /\ NotRulesAtRest

NextRules ==
    \/ \E auth \in Users \cup {NoAuth}, b \in BookIds : Get(auth, b) /\ UNCHANGED notRulesVars
    \/ \E auth \in Users \cup {NoAuth}, b \in BookIds, doc \in Documents :
           Create(auth, b, doc) /\ UNCHANGED notRulesVars
    \/ \E auth \in Users \cup {NoAuth}, b \in BookIds, doc \in Documents :
           Update(auth, b, doc) /\ UNCHANGED notRulesVars
    \/ \E auth \in Users \cup {NoAuth}, b \in BookIds : Delete(auth, b) /\ UNCHANGED notRulesVars

SpecRules == InitRules /\ [][NextRules]_vars

-----------------------------------------------------------------------------
(* POST /api/generate-audio.  Strings that are taken apart or put together
   (the Authorization header, the book id, the storage path) are sequences of
   pieces of text, "/" and "Bearer " being pieces of their own. *)

\* z.string().min(10) of text and z.string().min(1) of bookId
MinTextLength == 10
MinBookIdLength == 1

\* the ID tokens that verifyIdToken accepts, with the uid each decodes to;
\* any other token makes it throw
ValidTokens == {<<"token-1">>, <<"token-2">>}
UidOf(token) == IF token = <<"token-1">> THEN "user-1" ELSE "user-2"
Tokens == ValidTokens \cup {<<"expired">>}

\* the Authorization header: none, a bearer token, "Bearer " with nothing
\* after it, a token without the scheme
Authorizations ==
    {Undefined} \cup {<<"Bearer ">> \o t : t \in Tokens} \cup {<<"Bearer ">>, <<"token-1">>}

\* a text of n characters
TextOf(n) == [j \in 1..n |-> "x"]
TextsSent == {Undefined, TextOf(MinTextLength - 1), TextOf(MinTextLength)}

\* the book ids sent: none, the empty string, an id, the uid of another user,
\* an id with a path in it
BookIdsSent ==
    { Undefined, <<>>, <<"book-1">>, <<"user-2">>, <<"..", "/", "user-2", "/", "book-1">> }

\* the bodies: not JSON, or an object with text, bookId and, for some clients,
\* a userId of their choice
Bodies ==
    {NotJson} \cup
        [json : {TRUE}, text : TextsSent, bookId : BookIdsSent, userId : Users \cup {Absent}]

Requests == [authorization : Authorizations, body : Bodies]

\* Date.now() at the upload
Timestamps == {"1700000000000", "1700000000001"}

\* header.split('Bearer '): the texts between the occurrences of 'Bearer '
RECURSIVE SplitBearer(_, _)
SplitBearer(header, piece) ==
    IF header = <<>> THEN <<piece>>
    ELSE IF Head(header) = "Bearer " THEN <<piece>> \o SplitBearer(Tail(header), <<>>)
    ELSE SplitBearer(Tail(header), Append(piece, Head(header)))

\* request.headers.get('Authorization')?.split('Bearer ')[1]
AuthTokenOf(authorization) ==
    IF authorization = Undefined THEN Undefined
    ELSE IF Len(SplitBearer(authorization, <<>>)) >= 2
    THEN SplitBearer(authorization, <<>>)[2]
    ELSE Undefined

\* !authToken
Falsy(value) == value = Undefined \/ value = <<>>

\* InputSchema.safeParse(body).success
InputValid(b) ==
    /\ b.text # Undefined /\ Len(b.text) >= MinTextLength
    /\ b.bookId # Undefined /\ Len(b.bookId) >= MinBookIdLength

\* mutant: the folder is named after the book and the file after the user
storagePathByBook(uid, bookId, timestamp) ==
    <<"audiobooks_generated", "/">> \o bookId \o <<"/", uid, "_audio_", timestamp, ".mp3">>

\* `audiobooks_generated/${userId}/${bookId}_audio_${timestamp}.mp3`
storagePath(uid, bookId, timestamp) ==
    <<"audiobooks_generated", "/", uid, "/">> \o bookId \o <<"_audio_", timestamp, ".mp3">>

\* the handler returns a response; its locals are gone
Respond(status, err) ==
    /\ response' = [status |-> status, error |-> err]
    /\ served' = served + 1
    /\ audioPc' = "idle"
    /\ authToken' = Undefined
    /\ userId' = Absent
    /\ body' = NotJson
    /\ data' = NoData
    /\ UNCHANGED request

\* a request arrives
Receive(req) ==
    /\ audioPc = "idle"
    /\ served < MaxRequests
    /\ request' = req
    /\ audioPc' = "auth"
    /\ UNCHANGED <<authToken, userId, body, data, objects, response, served>>

\* 1. the token is taken from the header; 401 without one
ReadToken ==
    /\ audioPc = "auth"
    /\ IF Falsy(AuthTokenOf(request.authorization))
       THEN Respond(401, "Unauthorized: Missing authentication token.")
       ELSE /\ authToken' = AuthTokenOf(request.authorization)
            /\ audioPc' = "verify"
            /\ UNCHANGED <<request, userId, body, data, response, served>>
    /\ UNCHANGED objects

\* verifyIdToken: the uid of the token, or it throws and the outer catch
\* answers 401
VerifyToken ==
    /\ audioPc = "verify"
    /\ IF authToken \in ValidTokens
       THEN /\ userId' = UidOf(authToken)
            /\ audioPc' = "parse"
            /\ UNCHANGED <<request, authToken, body, data, response, served>>
       ELSE Respond(401, "Authentication failed")
    /\ UNCHANGED objects

\* 2. request.json(); 400 when the body is not JSON
ParseBody ==
    /\ audioPc = "parse"
    /\ IF ~request.body.json
       THEN Respond(400, "Invalid request body: Must be valid JSON.")
       ELSE /\ body' = request.body
            /\ audioPc' = "validate"
            /\ UNCHANGED <<request, authToken, userId, data, response, served>>
    /\ UNCHANGED objects

\* InputSchema.safeParse; 400 when it fails; the data are text and bookId
ValidateInput ==
    /\ audioPc = "validate"
    /\ IF InputValid(body)
       THEN /\ data' = [text |-> body.text, bookId |-> body.bookId]
            /\ audioPc' = "tts"
            /\ UNCHANGED <<request, authToken, userId, body, response, served>>
       ELSE Respond(400, "Invalid input")
    /\ UNCHANGED objects

\* 3. the speech stream is made, or gTTS throws: 500
GenerateSpeech ==
    /\ audioPc = "tts"
    /\ \/ /\ audioPc' = "buffer"
          /\ UNCHANGED <<request, authToken, userId, body, data, response, served>>
       \/ Respond(500, "Failed to generate audio stream")
    /\ UNCHANGED objects

\* 4. the stream is read into a buffer; an error of the stream rejects the
\* promise, which the catch around the token verification answers with 401
ReadStream ==
    /\ audioPc = "buffer"
    /\ \/ /\ audioPc' = "bucket"
          /\ UNCHANGED <<request, authToken, userId, body, data, response, served>>
       \/ Respond(401, "Authentication failed")
    /\ UNCHANGED objects

\* 5. the bucket is obtained, or 500
GetBucket ==
    /\ audioPc = "bucket"
    /\ \/ /\ audioPc' = "upload"
          /\ UNCHANGED <<request, authToken, userId, body, data, response, served>>
       \/ Respond(500, "Failed to access storage bucket")
    /\ UNCHANGED objects

\* the buffer is saved under the storage path and 200 is answered, or the
\* upload fails: 500
Upload(timestamp) ==
    /\ audioPc = "upload"
    /\ \/ /\ objects' = objects \cup
                 { [path |-> storagePath(userId, data.bookId, timestamp),
                    content |-> data.text,
                    bearer |-> AuthTokenOf(request.authorization)] }
          /\ Respond(200, Absent)
       \/ /\ Respond(500, "Failed to upload audio buffer")
          /\ UNCHANGED objects

notAudioVars == <<wordVars, viewVars, errorVars, rulesVars, laterVars>>
NotAudioAtRest == WordAtRest /\ ViewInit /\ ErrorAtRest /\ RulesInit /\ LaterAtRest

InitAudio == AudioInit /\ NotAudioAtRest

NextAudio ==
    \/ \E req \in Requests : Receive(req) /\ UNCHANGED notAudioVars
    \/ ReadToken /\ UNCHANGED notAudioVars
    \/ VerifyToken /\ UNCHANGED notAudioVars
    \/ ParseBody /\ UNCHANGED notAudioVars
    \/ ValidateInput /\ UNCHANGED notAudioVars
    \/ GenerateSpeech /\ UNCHANGED notAudioVars
    \/ ReadStream /\ UNCHANGED notAudioVars
    \/ GetBucket /\ UNCHANGED notAudioVars
    \/ \E timestamp \in Timestamps : Upload(timestamp) /\ UNCHANGED notAudioVars

SpecAudio == InitAudio /\ [][NextAudio]_vars

-----------------------------------------------------------------------------
(* POST /api/analyze-text.  The handler calls fixWordsWithIterations, whose
   steps are the steps of the word repair above. *)

\* the bodies sent: not JSON, JSON that is not an object, an object without
\* text, an object whose text is a number, an object with a text
AnalyzeTexts == SampleTexts \cup {<<>>, <<" ">>, <<"a", " ", "b">>, <<"b", " ", "a", " ", "b">>}
AnalyzeBodies ==
    { [kind |-> kind, text |-> Undefined] : kind \in {"notJson", "notObject", "noText", "number"} }
        \cup { [kind |-> "string", text |-> t] : t \in AnalyzeTexts }
AnalyzeRequests == [authorization : Authorizations, body : AnalyzeBodies]

\* InputSchema.safeParse(body).success: an object whose text is a string
AnalyzeInputValid(b) == b.kind = "string"

\* the handler returns a response; its locals are gone
AnalyzeRespond(status, txt, err) ==
    /\ analyzeResponse' = [status |-> status, text |-> txt, error |-> err]
    /\ analyzeServed' = analyzeServed + 1
    /\ analyzePc' = "idle"
    /\ analyzeData' = Undefined
    /\ UNCHANGED analyzeRequest

\* a request arrives
AnalyzeReceive(req) ==
    /\ analyzePc = "idle"
    /\ analyzeServed < MaxRequests
    /\ analyzeRequest' = req
    /\ analyzePc' = "auth"
    /\ analyzeTrace' = <<>>
    /\ analyzeResponse' = NoAnalyzeResponse
    /\ UNCHANGED <<analyzeData, analyzeServed, wordVars>>

\* 1. the token is taken from the header; 401 without one
AnalyzeReadToken ==
    /\ analyzePc = "auth"
    /\ analyzeTrace' = Append(analyzeTrace, "token")
    /\ IF Falsy(AuthTokenOf(analyzeRequest.authorization))
       THEN AnalyzeRespond(401, Undefined, "Unauthorized: Missing authentication token.")
       ELSE /\ analyzePc' = "parse"
            /\ UNCHANGED <<analyzeRequest, analyzeData, analyzeResponse, analyzeServed>>
    /\ UNCHANGED wordVars

\* 2. request.json(); 400 when the body is not JSON
AnalyzeParseBody ==
    /\ analyzePc = "parse"
    /\ analyzeTrace' = Append(analyzeTrace, "json")
    /\ IF analyzeRequest.body.kind = "notJson"
       THEN AnalyzeRespond(400, Undefined, "Invalid request body: Must be valid JSON.")
       ELSE /\ analyzePc' = "validate"
            /\ UNCHANGED <<analyzeRequest, analyzeData, analyzeResponse, analyzeServed>>
    /\ UNCHANGED wordVars

\* mutant: the schema accepts every JSON body
AnalyzeValidateInputAnyBody ==
    /\ analyzePc = "validate"
    /\ analyzeTrace' = Append(analyzeTrace, "safeParse")
    /\ analyzeData' = analyzeRequest.body.text
    /\ analyzePc' = "fix"
    /\ UNCHANGED <<analyzeRequest, analyzeResponse, analyzeServed>>
    /\ UNCHANGED wordVars

\* InputSchema.safeParse; 400 when it fails; the data is the text
AnalyzeValidateInput ==
    /\ analyzePc = "validate"
    /\ analyzeTrace' = Append(analyzeTrace, "safeParse")
    /\ IF AnalyzeInputValid(analyzeRequest.body)
       THEN /\ analyzeData' = analyzeRequest.body.text
            /\ analyzePc' = "fix"
            /\ UNCHANGED <<analyzeRequest, analyzeResponse, analyzeServed>>
       ELSE AnalyzeRespond(400, Undefined, "Invalid input")
    /\ UNCHANGED wordVars

\* fixWordsWithIterations(text) is called
AnalyzeCallFixWords ==
    /\ analyzePc = "fix"
    /\ analyzeTrace' = Append(analyzeTrace, "fixWordsWithIterations")
    /\ analyzePc' = "fixing"
    /\ input' = analyzeData
    /\ UNCHANGED <<fixedText, passes, text, tokens, i, fixedTokens, sentence, k, pc>>
    /\ UNCHANGED <<analyzeRequest, analyzeData, analyzeResponse, analyzeServed, wordSet, parked>>

\* a step of the word repair, inside the handler
AnalyzeFixing == analyzePc = "fixing" /\ UNCHANGED <<analyzeVars, parked>>

\* fixWordsWithIterations has returned and its locals are gone: 200 with the
\* fixed text
AnalyzeSendText ==
    /\ analyzePc = "fixing"
    /\ pc = "done"
    /\ analyzeTrace' = Append(analyzeTrace, "json(text)")
    /\ AnalyzeRespond(200, fixedText, Absent)
    /\ input' = <<>>
    /\ fixedText' = <<>>
    /\ passes' = 0
    /\ pc' = "call"
    /\ UNCHANGED <<wordSet, text, tokens, i, fixedTokens, sentence, k, parked>>

notAnalyzeVars ==
    <<viewVars, errorVars, rulesVars, audioVars, appVars, homeVars, uploadVars, popoverVars, listenerVars>>
NotAnalyzeAtRest ==
    ViewInit /\ ErrorAtRest /\ RulesInit /\ AudioInit /\ AppAtRest /\ HomeAtRest /\ UploadAtRest /\ PopoverAtRest /\ ListenerAtRest

\* the word list is loaded when the module is; no call is under way
InitAnalyze ==
    /\ wordSet \in {LoadWordSet(words) : words \in SUBSET ShortWords}
    /\ input = <<>>
    /\ CallInit
    /\ parked = NoCall
    /\ AnalyzeInit
    /\ NotAnalyzeAtRest

NextAnalyze ==
    \/ \E req \in AnalyzeRequests : AnalyzeReceive(req) /\ UNCHANGED notAnalyzeVars
    \/ AnalyzeReadToken /\ UNCHANGED notAnalyzeVars
    \/ AnalyzeParseBody /\ UNCHANGED notAnalyzeVars
    \/ AnalyzeValidateInput /\ UNCHANGED notAnalyzeVars
    \/ AnalyzeCallFixWords /\ UNCHANGED notAnalyzeVars
    \/ StartPass /\ AnalyzeFixing /\ UNCHANGED notAnalyzeVars
    \/ MergeStep /\ AnalyzeFixing /\ UNCHANGED notAnalyzeVars
    \/ KeepStep /\ AnalyzeFixing /\ UNCHANGED notAnalyzeVars
    \/ FormatNothing /\ AnalyzeFixing /\ UNCHANGED notAnalyzeVars
    \/ StartFormat /\ AnalyzeFixing /\ UNCHANGED notAnalyzeVars
    \/ FormatStep /\ AnalyzeFixing /\ UNCHANGED notAnalyzeVars
    \/ FinishFormat /\ AnalyzeFixing /\ UNCHANGED notAnalyzeVars
    \/ ReturnPass /\ AnalyzeFixing /\ UNCHANGED notAnalyzeVars
    \/ AnalyzeSendText /\ UNCHANGED notAnalyzeVars

SpecAnalyze == InitAnalyze /\ [][NextAnalyze]_vars

-----------------------------------------------------------------------------
(* AppContent with useBookManager and useViewMode: the selection, the view
   mode and handleDeleteBook.  The state updates of both hooks wait in their
   queues for the next render; handleDeleteBook is an async function whose
   awaits let clicks and renders in between. *)

\* the book with a generated audio file
HasAudio(b) == b = "book-1"

AllFiles ==
    {[book |-> b, kind |-> "original"] : b \in BookIds}
        \cup {[book |-> b, kind |-> "audio"] : b \in {c \in BookIds : HasAudio(c)}}

\* what deleteDoc and deleteObject reject with
DeleteErrors ==
    { [kind |-> "Error", message |-> <<"Firebase">>],
      [kind |-> "Error", message |-> <<"auth/invalid-credential">>],
      [kind |-> "Error", message |-> <<"Something else">>] }
Outcomes == {[ok |-> TRUE, error |-> [kind |-> "null", message |-> <<>>]]}
                \cup {[ok |-> FALSE, error |-> e] : e \in DeleteErrors}

\* the selection that the next render shows
SelectedInEffect ==
    IF selectedPending = <<>> THEN selectedBook ELSE selectedPending[Len(selectedPending)]

\* setSelectedBook: the update waits for the render
setSelectedBook(book) == selectedPending' = Append(selectedPending, book)

\* toast({ variant: 'destructive', title: errorInfo.title, ... }) with
\* errorInfo = handleError(err, { category: ErrorCategory.FIREBASE, ... })
ErrorToast(err) ==
    [variant |-> "destructive",
     title |-> createUserFriendlyError(err, fullContext(err, [category |-> FIREBASE])).title]

\* a click on a book of the sidebar
handleBookSelect(book) ==
    /\ "user" \in services
    /\ book \in listed
    /\ Len(pending) < MaxPending
    /\ Len(selectedPending) < MaxPending
    /\ setSelectedBook(book)
    /\ goToReader(book)
    /\ UNCHANGED <<selectedBook, listed, library, storageFiles, services, deletion, toasts, history>>

\* a click on the Library button of the header, shown in the reader view
handleBackToLibrary ==
    /\ "user" \in services
    /\ isReaderView
    /\ Len(pending) < MaxPending
    /\ Len(selectedPending) < MaxPending
    /\ setSelectedBook("null")
    /\ goToLibrary
    /\ UNCHANGED <<selectedBook, listed, library, storageFiles, services, deletion, toasts, history>>

\* a click on the back button of ReaderView, rendered when the view is not
\* the library and a book is selected: onBack={() => goToLibrary()}
ReaderViewOnBack ==
    /\ "user" \in services
    /\ ~isLibraryView
    /\ selectedBook # "null"
    /\ Len(pending) < MaxPending
    /\ goToLibrary
    /\ UNCHANGED <<appVars, history>>

\* handleDeleteBook(bookToDelete) is called with the callback of the last
\* render, which closes over that render's selectedBook; without user, db or
\* storage it shows a toast and returns
StartDelete(book) ==
    /\ book \in listed
    /\ deletion.pc \in {"none", "done"}
    /\ IF services # Services
       THEN /\ toasts' = ErrorToast([kind |-> "Error", message |-> <<"Services unavailable">>])
            /\ deletion' = [NoDeletion EXCEPT !.book = book, !.pc = "done",
                                              !.closure = selectedBook,
                                              !.outcome = "unavailable",
                                              !.selectedThen = SelectedInEffect]
       ELSE /\ deletion' = [NoDeletion EXCEPT !.book = book, !.pc = "doc",
                                              !.closure = selectedBook,
                                              !.outcome = "running"]
            /\ UNCHANGED toasts
    /\ UNCHANGED <<selectedBook, selectedPending, listed, library, storageFiles, services, viewVars>>

\* the catch block: the error toast
Failed(step, err) ==
    /\ toasts' = ErrorToast(err)
    /\ deletion' = [deletion EXCEPT !.pc = "done", !.outcome = "failed",
                                    !.steps = Append(deletion.steps, step),
                                    !.failedAt = Len(deletion.steps) + 1,
                                    !.selectedThen = SelectedInEffect]
    /\ UNCHANGED selectedPending

\* after the last await: the toast, and the selection is cleared if the
\* selectedBook of the closure is the deleted book
Deleted(step) ==
    /\ toasts' = [variant |-> "default", title |-> "Book Deleted"]
    /\ deletion' = [deletion EXCEPT !.pc = "done", !.outcome = "deleted",
                                    !.steps = Append(deletion.steps, step),
                                    !.cleared = (deletion.closure = deletion.book),
                                    !.selectedThen = SelectedInEffect]
    /\ IF deletion.closure = deletion.book
       THEN setSelectedBook("null")
       ELSE UNCHANGED selectedPending

\* mutant: a failure of deleteDoc is passed over
DeleteDocumentGoesOn(result) ==
    /\ deletion.pc = "doc"
    /\ IF result.ok THEN library' = library \ {deletion.book} ELSE UNCHANGED library
    /\ deletion' = [deletion EXCEPT !.pc = "file", !.steps = Append(deletion.steps, "deleteDoc")]
    /\ UNCHANGED <<toasts, selectedPending>>
    /\ UNCHANGED <<selectedBook, listed, storageFiles, services, viewVars>>

\* await deleteDoc(doc(db, 'books', bookToDelete.id))
DeleteDocument(result) ==
    /\ deletion.pc = "doc"
    /\ IF result.ok
       THEN /\ library' = library \ {deletion.book}
            /\ deletion' = [deletion EXCEPT !.pc = "file",
                                            !.steps = Append(deletion.steps, "deleteDoc")]
            /\ UNCHANGED <<toasts, selectedPending>>
       ELSE /\ Failed("deleteDoc", result.error)
            /\ UNCHANGED library
    /\ UNCHANGED <<selectedBook, listed, storageFiles, services, viewVars>>

\* await deleteObject(ref(storage, bookToDelete.storageUrl)); without an
\* audio file the function goes on to its end
DeleteOriginalFile(result) ==
    /\ deletion.pc = "file"
    /\ Len(selectedPending) < MaxPending
    /\ IF result.ok
       THEN /\ storageFiles' = storageFiles \ {[book |-> deletion.book, kind |-> "original"]}
            /\ IF HasAudio(deletion.book)
               THEN /\ deletion' = [deletion EXCEPT !.pc = "audio",
                                        !.steps = Append(deletion.steps, "deleteObject(storageUrl)")]
                    /\ UNCHANGED <<toasts, selectedPending>>
               ELSE Deleted("deleteObject(storageUrl)")
       ELSE /\ Failed("deleteObject(storageUrl)", result.error)
            /\ UNCHANGED storageFiles
    /\ UNCHANGED <<selectedBook, listed, library, services, viewVars>>

\* if (bookToDelete.audioStorageUrl) await deleteObject(audioRef)
DeleteAudioFile(result) ==
    /\ deletion.pc = "audio"
    /\ Len(selectedPending) < MaxPending
    /\ IF result.ok
       THEN /\ storageFiles' = storageFiles \ {[book |-> deletion.book, kind |-> "audio"]}
            /\ Deleted("deleteObject(audioStorageUrl)")
       ELSE /\ Failed("deleteObject(audioStorageUrl)", result.error)
            /\ UNCHANGED storageFiles
    /\ UNCHANGED <<selectedBook, listed, library, services, viewVars>>

\* the component renders: the queued updates of both hooks are applied
RenderState ==
    /\ viewMode' = InEffect
    /\ isLibraryView' = (viewMode' = "library")
    /\ isReaderView' = (viewMode' = "reader")
    /\ pending' = <<>>
    /\ selectedBook' = SelectedInEffect
    /\ selectedPending' = <<>>
    /\ UNCHANGED <<logged, history, library, storageFiles, services, deletion, toasts>>

AppRender ==
    /\ pending # <<>> \/ selectedPending # <<>>
    /\ RenderState
    /\ UNCHANGED listed

\* a snapshot of the books collection arrives: setBooks, and the render
BooksSnapshot ==
    /\ "user" \in services /\ "db" \in services
    /\ listed # library
    /\ listed' = library
    /\ RenderState

notAppVars ==
    <<wordVars, errorVars, rulesVars, audioVars, analyzeVars, homeVars, uploadVars, popoverVars, listenerVars>>
NotAppAtRest ==
    WordAtRest /\ ErrorAtRest /\ RulesInit /\ AudioInit /\ AnalyzeInit /\ HomeAtRest /\ UploadAtRest /\ PopoverAtRest /\ ListenerAtRest

\* the page is mounted with the books of the user listed
InitApp ==
    /\ ViewInit
    /\ selectedBook = "null"
    /\ selectedPending = <<>>
    /\ listed = BookIds
    /\ library = BookIds
    /\ storageFiles = AllFiles
    /\ services \in SUBSET Services
    /\ deletion = NoDeletion
    /\ toasts = NoToast
    /\ NotAppAtRest

NextApp ==
    \/ \E book \in BookIds : handleBookSelect(book) /\ UNCHANGED notAppVars
    \/ handleBackToLibrary /\ UNCHANGED notAppVars
    \/ ReaderViewOnBack /\ UNCHANGED notAppVars
    \/ \E book \in BookIds : StartDelete(book) /\ UNCHANGED notAppVars
    \/ \E result \in Outcomes : DeleteDocument(result) /\ UNCHANGED notAppVars
    \/ \E result \in Outcomes : DeleteOriginalFile(result) /\ UNCHANGED notAppVars
    \/ \E result \in Outcomes : DeleteAudioFile(result) /\ UNCHANGED notAppVars
    \/ AppRender /\ UNCHANGED notAppVars
    \/ BooksSnapshot /\ UNCHANGED notAppVars

SpecApp == InitApp /\ [][NextApp]_vars

-----------------------------------------------------------------------------
(* HomeContent with AiCard: the selected book, its text loaded on demand by
   loadTextContent and its audio file made by handleGenerateAudio.  A state
   update is a record queued until the next render, which applies the queue
   in order; an update given as a function is applied to the state that the
   updates before it have left.  Texts and URLs are named after their book. *)

\* the extracted text of a book, the message shown when its extraction
\* fails, and the URL of the audio file generated for it
TextOfBook(b) == <<"text of ", b>>
ErrorTextOfBook(b) == <<"Error loading text: ", b>>
AudioUrlOf(b) == <<"audiobooks_generated/", b, "_audio.mp3">>

StateUpdate(op, id, value) == [op |-> op, id |-> id, value |-> value]

\* mutant: the text is written into whatever book is selected
SetTextContentAlways(prev, id, value) ==
    IF prev.id # "null" THEN [prev EXCEPT !.textContent = value] ELSE prev

\* prev => prev && prev.id === book.id ? { ...prev, textContent } : prev
SetTextContent(prev, id, value) ==
    IF prev.id # "null" /\ prev.id = id THEN [prev EXCEPT !.textContent = value] ELSE prev

\* prev => prev && prev.id === selectedBook.id
\*             ? { ...prev, audioStorageUrl: generatedAudioUrl } : prev
SetAudioStorageUrl(prev, id, value) ==
    IF prev.id # "null" /\ prev.id = id THEN [prev EXCEPT !.audioStorageUrl = value] ELSE prev

\* one queued update applied; fresh tells that selectedBook is a new object
ApplyUpdate(st, u) ==
    CASE u.op = "select" ->
             [st EXCEPT !.book = [id |-> u.id, textContent |-> <<>>, audioStorageUrl |-> u.value],
                        !.fresh = TRUE]
      [] u.op = "clearText" ->
             IF st.book.id = "null" THEN st
             ELSE [st EXCEPT !.book.textContent = <<>>, !.fresh = TRUE]
      [] u.op = "text" ->
             [st EXCEPT !.book = SetTextContent(st.book, u.id, u.value),
                        !.fresh = st.fresh \/ SetTextContent(st.book, u.id, u.value) # st.book]
      [] u.op = "audio" ->
             [st EXCEPT !.book = SetAudioStorageUrl(st.book, u.id, u.value),
                        !.fresh = st.fresh \/ SetAudioStorageUrl(st.book, u.id, u.value) # st.book]
      [] u.op = "view" -> [st EXCEPT !.view = u.id]
      [] u.op = "extraction" -> [st EXCEPT !.loading = (u.id = "true")]
      [] u.op = "aiAudio" ->
             [st EXCEPT !.audio = [loading |-> (u.id = "loading"), audioUrl |-> u.value]]

RECURSIVE ApplyAll(_, _)
ApplyAll(st, queue) ==
    IF queue = <<>> THEN st ELSE ApplyAll(ApplyUpdate(st, Head(queue)), Tail(queue))

\* a click on a book of the sidebar
handleSelectBook(book) ==
    /\ Len(homeQueue) < MaxPending
    /\ homeQueue' = homeQueue \o
           (IF homeBook.id # book
            THEN << StateUpdate("extraction", "false", <<>>), StateUpdate("select", book, bookDocs[book]) >>
            ELSE IF homeView # "reader"
            THEN << StateUpdate("extraction", "false", <<>>), StateUpdate("clearText", "null", <<>>) >>
            ELSE <<>>)
           \o << StateUpdate("view", "reader", <<>>) >>
    /\ UNCHANGED <<homeBook, homeView, extractionLoading, loads, aiMounted, aiAudio,
                   previousBook, generating, bookDocs>>

\* a click on a back button, shown in the reader view
handleGoBackToLibrary ==
    /\ homeView = "reader"
    /\ Len(homeQueue) < MaxPending
    /\ homeQueue' = homeQueue \o
           << StateUpdate("select", "null", <<>>), StateUpdate("view", "library", <<>>),
              StateUpdate("extraction", "false", <<>>) >>
    /\ UNCHANGED <<homeBook, homeView, extractionLoading, loads, aiMounted, aiAudio,
                   previousBook, generating, bookDocs>>

\* loadTextContent(book) comes back from its awaits with the text, or with an
\* error
loadTextContent(book, ok) ==
    /\ book \in loads
    /\ Len(homeQueue) < MaxPending
    /\ loads' = loads \ {book}
    /\ homeQueue' = homeQueue \o
           (IF ok
            THEN << StateUpdate("text", book, TextOfBook(book)), StateUpdate("extraction", "false", <<>>) >>
            ELSE << StateUpdate("extraction", "false", <<>>), StateUpdate("text", book, ErrorTextOfBook(book)) >>)
    /\ UNCHANGED <<homeBook, homeView, extractionLoading, aiMounted, aiAudio, previousBook,
                   generating, bookDocs>>

\* a click on Generate Audio File: the button is there when the text of the
\* selected book is loaded and nothing is loading
StartGenerateAudio ==
    /\ aiMounted
    /\ homeBook.textContent = TextOfBook(homeBook.id)
    /\ ~aiAudio.loading /\ ~extractionLoading
    /\ Len(homeQueue) < MaxPending
    /\ \A g \in generating : g.id # homeBook.id
    /\ generating' = generating \cup {[id |-> homeBook.id, attached |-> TRUE]}
    /\ homeQueue' = Append(homeQueue, StateUpdate("aiAudio", "loading", <<>>))
    /\ UNCHANGED <<homeBook, homeView, extractionLoading, loads, aiMounted, aiAudio,
                   previousBook, bookDocs>>

\* the setAudioState of a call reaches the AiCard that made the call, if it is
\* still mounted
ToAiCard(g, updates) == IF g.attached THEN updates ELSE <<>>

\* handleGenerateAudio comes back from its awaits: the document is updated,
\* then setSelectedBook and setAudioState; or an await failed
handleGenerateAudio(g, ok) ==
    /\ g \in generating
    /\ Len(homeQueue) < MaxPending
    /\ generating' = generating \ {g}
    /\ IF ok
       THEN /\ bookDocs' = [bookDocs EXCEPT ![g.id] = AudioUrlOf(g.id)]
            /\ homeQueue' = homeQueue \o << StateUpdate("audio", g.id, AudioUrlOf(g.id)) >>
                   \o ToAiCard(g, << StateUpdate("aiAudio", "idle", AudioUrlOf(g.id)) >>)
       ELSE /\ UNCHANGED bookDocs
            /\ homeQueue' = homeQueue \o ToAiCard(g, << StateUpdate("aiAudio", "idle", <<>>) >>)
    /\ UNCHANGED <<homeBook, homeView, extractionLoading, loads, aiMounted, aiAudio, previousBook>>

\* HomeContent renders and the effects run: AiCard, mounted in the reader view
\* with a book, resets its state when the book is not the one of its render
\* before; HomeContent starts loadTextContent for a book without text
HomeRender ==
    /\ homeQueue # <<>>
    /\ LET st == ApplyAll([book |-> homeBook, view |-> homeView, loading |-> extractionLoading,
                           audio |-> aiAudio, fresh |-> FALSE], homeQueue)
           mounted == st.view = "reader" /\ st.book.id # "null"
           ref == IF aiMounted THEN previousBook ELSE "undefined"
           reset == mounted /\ ref # st.book.id
           changed == st.fresh \/ st.view # homeView \/ st.loading # extractionLoading
           load == /\ changed
                   /\ st.view = "reader" /\ st.book.id # "null"
                   /\ st.book.textContent = <<>> /\ ~st.loading
       IN  /\ homeBook' = st.book
           /\ homeView' = st.view
           /\ extractionLoading' = st.loading
           /\ aiMounted' = mounted
           /\ aiAudio' = IF ~mounted THEN NoAudioState
                         ELSE IF ~aiMounted
                         THEN [loading |-> FALSE, audioUrl |-> st.book.audioStorageUrl]
                         ELSE st.audio
           /\ previousBook' = IF mounted THEN st.book.id ELSE "undefined"
           /\ generating' = IF mounted THEN generating
                            ELSE {[g EXCEPT !.attached = FALSE] : g \in generating}
           /\ loads' = IF load THEN loads \cup {st.book.id} ELSE loads
           /\ homeQueue' = (IF reset THEN << StateUpdate("aiAudio", "idle", <<>>) >> ELSE <<>>)
                               \o (IF load THEN << StateUpdate("extraction", "true", <<>>) >> ELSE <<>>)
    /\ UNCHANGED bookDocs

notHomeVars ==
    <<wordVars, viewVars, errorVars, rulesVars, audioVars, analyzeVars, appVars, uploadVars, popoverVars, listenerVars>>
NotHomeAtRest ==
    WordAtRest /\ ViewInit /\ ErrorAtRest /\ RulesInit /\ AudioInit /\ AnalyzeInit /\ AppAtRest /\ UploadAtRest /\ PopoverAtRest /\ ListenerAtRest

InitHome == HomeAtRest /\ NotHomeAtRest

NextHome ==
    \/ \E book \in BookIds : handleSelectBook(book) /\ UNCHANGED notHomeVars
    \/ handleGoBackToLibrary /\ UNCHANGED notHomeVars
    \/ \E book \in BookIds, ok \in BOOLEAN : loadTextContent(book, ok) /\ UNCHANGED notHomeVars
    \/ StartGenerateAudio /\ UNCHANGED notHomeVars
    \/ \E g \in generating, ok \in BOOLEAN : handleGenerateAudio(g, ok) /\ UNCHANGED notHomeVars
    \/ HomeRender /\ UNCHANGED notHomeVars

SpecHome == InitHome /\ [][NextHome]_vars

-----------------------------------------------------------------------------
(* FileUpload.  The change event of the file input is a discrete event: the
   updates made before the first await are rendered before the next event.
   The updates made after an await wait in the queue for the next render.
   uploadFileToStorage reports progress while it is pending and then resolves
   or rejects. *)

Files ==
    { [name |-> "book.pdf", type |-> "application/pdf"],
      [name |-> "other.pdf", type |-> "application/pdf"],
      [name |-> "book.epub", type |-> "application/epub+zip"],
      [name |-> "notes", type |-> ""] }

allowedTypes == {"application/pdf"}

\* the progress values reported
ProgressValues == {50, 100}

\* a queued update of isUploading or of uploadProgress
UploadUpdate(field, flag, number) == [field |-> field, flag |-> flag, number |-> number]

\* mutant: the state is reset after a success only
FinallyResetOnSuccessOnly(succeeded) ==
    uploadQueue' = IF succeeded
                   THEN uploadQueue \o << UploadUpdate("isUploading", FALSE, NoProgress),
                                         UploadUpdate("uploadProgress", FALSE, NoProgress) >>
                   ELSE uploadQueue

\* finally: setIsUploading(false); setUploadProgress(null)
FinallyReset(succeeded) ==
    uploadQueue' = uploadQueue \o << UploadUpdate("isUploading", FALSE, NoProgress),
                                    UploadUpdate("uploadProgress", FALSE, NoProgress) >>

\* a file is chosen in the input, which is disabled while isUploading: a file
\* of another type is refused; for a PDF the upload starts
handleFileChange(file) ==
    /\ ~isUploading
    /\ uploadCall.pc \in {"none", "done"}
    /\ uploadCall.n < MaxRequests
    /\ IF file.type \notin allowedTypes
       THEN /\ uploadToast' = "Invalid File Type"
            /\ uploadCall' = [pc |-> "done", file |-> file, n |-> uploadCall.n + 1]
            /\ UNCHANGED <<isUploading, uploadProgress, uploadQueue>>
       ELSE /\ uploadToast' = "Starting Upload"
            /\ uploadCall' = [pc |-> "uploading", file |-> file, n |-> uploadCall.n + 1]
            /\ isUploading' = TRUE
            /\ uploadProgress' = 0
            /\ uploadQueue' = <<>>
    /\ UNCHANGED <<onUploadSuccess, callbackCalls, storedFiles>>

\* progress => setUploadProgress(progress)
ReportProgress(progress) ==
    /\ uploadCall.pc = "uploading"
    /\ Len(uploadQueue) < MaxPending
    /\ uploadQueue' = Append(uploadQueue, UploadUpdate("uploadProgress", FALSE, progress))
    /\ UNCHANGED <<isUploading, uploadProgress, uploadCall, onUploadSuccess, callbackCalls,
                   storedFiles, uploadToast>>

\* uploadFileToStorage resolves: the toast, and onUploadSuccess(metadata) is
\* called if it is given; without it the function goes on to finally
UploadResolves ==
    /\ uploadCall.pc = "uploading"
    /\ storedFiles' = storedFiles \cup {[file |-> uploadCall.file, n |-> uploadCall.n]}
    /\ uploadToast' = "Upload Successful"
    /\ IF onUploadSuccess
       THEN /\ callbackCalls' = callbackCalls \cup {[file |-> uploadCall.file, n |-> uploadCall.n]}
            /\ uploadCall' = [uploadCall EXCEPT !.pc = "callback"]
            /\ UNCHANGED uploadQueue
       ELSE /\ uploadCall' = [uploadCall EXCEPT !.pc = "done"]
            /\ FinallyReset(TRUE)
            /\ UNCHANGED callbackCalls
    /\ UNCHANGED <<isUploading, uploadProgress, onUploadSuccess>>

\* uploadFileToStorage rejects: catch, then finally
UploadRejects ==
    /\ uploadCall.pc = "uploading"
    /\ uploadToast' = "Upload Failed"
    /\ uploadCall' = [uploadCall EXCEPT !.pc = "done"]
    /\ FinallyReset(FALSE)
    /\ UNCHANGED <<isUploading, uploadProgress, onUploadSuccess, callbackCalls, storedFiles>>

\* onUploadSuccess returns, or throws or rejects: catch, then finally
CallbackSettles(ok) ==
    /\ uploadCall.pc = "callback"
    /\ uploadToast' = IF ok THEN uploadToast ELSE "Upload Failed"
    /\ uploadCall' = [uploadCall EXCEPT !.pc = "done"]
    /\ FinallyReset(ok)
    /\ UNCHANGED <<isUploading, uploadProgress, onUploadSuccess, callbackCalls, storedFiles>>

RECURSIVE ApplyUploads(_, _)
ApplyUploads(st, queue) ==
    IF queue = <<>> THEN st
    ELSE LET u == Head(queue)
         IN  ApplyUploads(IF u.field = "isUploading"
                          THEN [st EXCEPT !.isUploading = u.flag]
                          ELSE [st EXCEPT !.uploadProgress = u.number],
                          Tail(queue))

\* FileUpload renders: the queued updates are applied in order
UploadRender ==
    /\ uploadQueue # <<>>
    /\ LET st == ApplyUploads([isUploading |-> isUploading, uploadProgress |-> uploadProgress],
                              uploadQueue)
       IN  /\ isUploading' = st.isUploading
           /\ uploadProgress' = st.uploadProgress
    /\ uploadQueue' = <<>>
    /\ UNCHANGED <<uploadCall, onUploadSuccess, callbackCalls, storedFiles, uploadToast>>

notUploadVars ==
    <<wordVars, viewVars, errorVars, rulesVars, audioVars, analyzeVars, appVars, homeVars, popoverVars, listenerVars>>
NotUploadAtRest ==
    WordAtRest /\ ViewInit /\ ErrorAtRest /\ RulesInit /\ AudioInit /\ AnalyzeInit /\ AppAtRest /\ HomeAtRest /\ PopoverAtRest /\ ListenerAtRest

InitUpload ==
    /\ isUploading = FALSE
    /\ uploadProgress = NoProgress
    /\ uploadQueue = <<>>
    /\ uploadCall = NoUpload
    /\ onUploadSuccess \in BOOLEAN
    /\ callbackCalls = {}
    /\ storedFiles = {}
    /\ uploadToast = ""
    /\ NotUploadAtRest

NextUpload ==
    \/ \E file \in Files : handleFileChange(file) /\ UNCHANGED notUploadVars
    \/ \E progress \in ProgressValues : ReportProgress(progress) /\ UNCHANGED notUploadVars
    \/ UploadResolves /\ UNCHANGED notUploadVars
    \/ UploadRejects /\ UNCHANGED notUploadVars
    \/ \E ok \in BOOLEAN : CallbackSettles(ok) /\ UNCHANGED notUploadVars
    \/ UploadRender /\ UNCHANGED notUploadVars

SpecUpload == InitUpload /\ [][NextUpload]_vars

\* ---------------------------------------------------------------------------
\* ExplanationPopover and the generateExplanation flow
\* ---------------------------------------------------------------------------

\* what the model's prompt call can do
PromptOutcomes == {"output", "noOutput", "invalidOutput", "throws"}
\* how the call of the server action can end for the component
CallOutcomes == PromptOutcomes \cup {"rejects"}

\* generateExplanation: '' without AI, '' for a text that fails the schema, the
\* validated output of the prompt, and '' with an error for anything thrown
generateExplanation(explainInput, promptOutcome) ==
    IF ~isAiInitialized THEN [explanation |-> "", error |-> Undefined]
    ELSE IF explainInput.text = "" THEN [explanation |-> "", error |-> Undefined]
    ELSE IF promptOutcome = "output"
         THEN [explanation |-> "Winston's day starts oddly.", error |-> Undefined]
    ELSE [explanation |-> "", error |-> <<"Failed to generate explanation">>]

\* !explanation
NoExplanation(value) == value = NullExplanation \/ value = <<"">>

\* a call of one of the three state setters
PopoverUpdate(field, flag, value) == [field |-> field, flag |-> flag, text |-> value]

RECURSIVE ApplyPopover(_, _)
ApplyPopover(st, queue) ==
    IF queue = <<>> THEN st
    ELSE LET u == Head(queue)
         IN  ApplyPopover(
                 CASE u.field = "isOpen" -> [st EXCEPT !.isOpen = u.flag]
                   [] u.field = "isLoading" -> [st EXCEPT !.isLoading = u.flag]
                   [] OTHER -> [st EXCEPT !.explanation = u.text],
                 Tail(queue))

\* the effect's condition
EffectCalls(st) == st.isOpen /\ NoExplanation(st.explanation) /\ ~st.isLoading

\* a render of the mounted component with the given updates, and the effect
\* after it: the effect runs when one of its dependencies changed, and then
\* getExplanation pauses speech, sets isLoading and calls generateExplanation
PopoverRenderOf(queue) ==
    LET now == [isOpen |-> isOpen, isLoading |-> isLoading, explanation |-> explanation]
        st == ApplyPopover(now, queue)
    IN  /\ isOpen' = st.isOpen
        /\ isLoading' = st.isLoading
        /\ explanation' = st.explanation
        /\ IF st # now /\ EffectCalls(st)
           THEN /\ speechPaused' = TRUE
                /\ popoverQueue' = <<PopoverUpdate("isLoading", TRUE, NullExplanation)>>
                /\ explainCalls' = Append(explainCalls, [text |-> popoverSentence])
           ELSE /\ popoverQueue' = <<>>
                /\ UNCHANGED <<speechPaused, explainCalls>>
        /\ UNCHANGED <<popoverSentence, popoverMounted, isAiInitialized, popoverToast>>

\* the user opens or closes the popover: a click, handled after the updates
\* queued before it were rendered, and rendered before the next event
onOpenChange(open) ==
    /\ popoverMounted
    /\ popoverQueue = <<>>
    /\ PopoverRenderOf(<<PopoverUpdate("isOpen", open, NullExplanation)>>)

\* React renders the updates queued by a settled call or by the effect
PopoverRender ==
    /\ popoverMounted
    /\ popoverQueue # <<>>
    /\ PopoverRenderOf(popoverQueue)

\* the oldest call settles, after the render that followed its start, and
\* getExplanation goes on after its await: setExplanation with the result, or
\* the toast of the catch block, and setIsLoading(false) in the finally block;
\* setters of an unmounted component do nothing
ExplainSettles(outcome) ==
    /\ explainCalls # <<>>
    /\ popoverQueue = <<>>
    /\ explainCalls' = Tail(explainCalls)
    /\ LET result == generateExplanation(Head(explainCalls), outcome)
           updates ==
               IF outcome = "rejects"
               THEN <<PopoverUpdate("isLoading", FALSE, NullExplanation)>>
               ELSE <<PopoverUpdate("explanation", FALSE, <<result.explanation>>),
                      PopoverUpdate("isLoading", FALSE, NullExplanation)>>
       IN  /\ popoverQueue' = IF popoverMounted THEN popoverQueue \o updates ELSE popoverQueue
           /\ popoverToast' = IF outcome = "rejects"
                              THEN [variant |-> "destructive", title |-> "Error"]
                              ELSE popoverToast
    /\ UNCHANGED <<popoverSentence, isOpen, isLoading, explanation, popoverMounted,
                   isAiInitialized, speechPaused>>

\* the reader moves to another sentence: the keyed popover is unmounted
PopoverUnmount ==
    /\ popoverMounted
    /\ popoverMounted' = FALSE
    /\ popoverQueue' = <<>>
    /\ UNCHANGED <<popoverSentence, isOpen, isLoading, explanation, explainCalls,
                   isAiInitialized, popoverToast, speechPaused>>

notPopoverVars ==
    <<wordVars, viewVars, errorVars, rulesVars, audioVars, analyzeVars, appVars, homeVars, uploadVars, listenerVars>>
NotPopoverAtRest ==
    WordAtRest /\ ViewInit /\ ErrorAtRest /\ RulesInit /\ AudioInit /\ AnalyzeInit /\ AppAtRest /\ HomeAtRest /\ UploadAtRest /\ ListenerAtRest

InitPopover ==
    /\ popoverSentence \in Sentences
    /\ isOpen = FALSE
    /\ isLoading = FALSE
    /\ explanation = NullExplanation
    /\ popoverMounted = TRUE
    /\ popoverQueue = <<>>
    /\ explainCalls = <<>>
    /\ isAiInitialized \in BOOLEAN
    /\ popoverToast = NoToast
    /\ speechPaused = FALSE
    /\ NotPopoverAtRest

NextPopover ==
    \/ \E open \in BOOLEAN : onOpenChange(open) /\ UNCHANGED notPopoverVars
    \/ PopoverRender /\ UNCHANGED notPopoverVars
    \/ \E outcome \in CallOutcomes : ExplainSettles(outcome) /\ UNCHANGED notPopoverVars
    \/ PopoverUnmount /\ UNCHANGED notPopoverVars

SpecPopover == InitPopover /\ [][NextPopover]_vars

\* React renders every queued update, and every call of the server action
\* settles
SpecPopoverLive ==
    /\ SpecPopover
    /\ WF_vars(PopoverRender /\ UNCHANGED notPopoverVars)
    /\ WF_vars(\E outcome \in CallOutcomes : ExplainSettles(outcome) /\ UNCHANGED notPopoverVars)

\* ---------------------------------------------------------------------------
\* useBookManager: the books effect and its snapshot listener
\* ---------------------------------------------------------------------------

\* the errors a snapshot listener can end with
ListenerErrors == DeleteErrors
\* new Error('Firestore instance not available')
NoFirestore == [kind |-> "Error", message |-> <<"Firestore instance not available">>]

\* a call of setBooks or of setBooksLoading
BooksUpdate(field, list, flag) == [field |-> field, list |-> list, flag |-> flag]
setBooks(list) == BooksUpdate("books", list, FALSE)
setBooksLoading(flag) == BooksUpdate("booksLoading", {}, flag)

RECURSIVE ApplyBooks(_, _)
ApplyBooks(st, queue) ==
    IF queue = <<>> THEN st
    ELSE LET u == Head(queue)
         IN  ApplyBooks(IF u.field = "books"
                        THEN [st EXCEPT !.books = u.list]
                        ELSE [st EXCEPT !.booksLoading = u.flag],
                        Tail(queue))

\* the state the queued updates lead to
HookState(queue) == ApplyBooks([books |-> hookBooks, booksLoading |-> booksLoading], queue)

\* an update changes the state: setBooks always hands over a new array
Rerenders(queue) ==
    \/ \E n \in 1..Len(queue) : queue[n].field = "books"
    \/ HookState(queue).booksLoading # booksLoading

\* mutant: the cleanup forgets the listener
CleanupKeepsListener(listeners, unsub) == listeners
\* the cleanup of the effect: unsubscribe(), if the effect made a listener; to
\* unsubscribe a listener that has ended changes nothing
Cleanup(listeners, unsub) ==
    IF unsub = "live" THEN SubSeq(listeners, 1, Len(listeners) - 1) ELSE listeners

\* the body of the effect for the given user, over the listeners left by the
\* cleanup: the updates it queues, the listeners after it, its unsubscribe and
\* its toast
BooksEffect(u, listeners) ==
    IF u # NoUser /\ dbAvailable
    THEN [queue |-> <<setBooksLoading(TRUE)>>,
          listeners |-> Append(listeners, u),
          unsubscribe |-> "live",
          toast |-> hookToast]
    ELSE IF ~dbAvailable /\ u # NoUser
    THEN [queue |-> <<setBooksLoading(FALSE)>>,
          listeners |-> listeners,
          unsubscribe |-> "undefined",
          toast |-> ErrorToast(NoFirestore)]
    ELSE [queue |-> <<setBooks({}), setBooksLoading(FALSE)>>,
          listeners |-> listeners,
          unsubscribe |-> "undefined",
          toast |-> hookToast]

\* a render of the hook with what useAuth returns, and the effect after it:
\* handleError is a new function at every render, so the cleanup of the last
\* effect and the effect itself run after every render
HookRenderOf(u, loading) ==
    LET st == HookState(hookQueue)
        eff == BooksEffect(u, Cleanup(activeListeners, unsubscribe))
    IN  /\ hookUser' = u
        /\ authLoading' = loading
        /\ hookBooks' = st.books
        /\ booksLoading' = st.booksLoading
        /\ hookQueue' = eff.queue
        /\ activeListeners' = eff.listeners
        /\ unsubscribe' = eff.unsubscribe
        /\ hookToast' = eff.toast
        /\ UNCHANGED <<dbAvailable, hookMounted>>

\* useAuth returns another user, or none: the provider renders the hook again
AuthChanges(u) ==
    /\ hookMounted
    /\ u # hookUser \/ authLoading
    /\ HookRenderOf(u, FALSE)

\* React handles the queued updates: a render, unless they change nothing
HookRender ==
    /\ hookMounted
    /\ hookQueue # <<>>
    /\ IF Rerenders(hookQueue)
       THEN HookRenderOf(hookUser, authLoading)
       ELSE /\ hookQueue' = <<>>
            /\ UNCHANGED <<hookUser, authLoading, dbAvailable, hookMounted, hookBooks,
                           booksLoading, activeListeners, unsubscribe, hookToast>>

\* a listener delivers a snapshot of the user's books
Snapshot(n, docs) ==
    /\ n \in 1..Len(activeListeners)
    /\ Len(hookQueue) <= MaxPending
    /\ hookQueue' = hookQueue \o <<setBooks(docs), setBooksLoading(FALSE)>>
    /\ UNCHANGED <<hookUser, authLoading, dbAvailable, hookMounted, hookBooks,
                   booksLoading, activeListeners, unsubscribe, hookToast>>

\* a listener ends with an error: Firestore drops it and calls the error callback
ListenerError(n, err) ==
    /\ n \in 1..Len(activeListeners)
    /\ Len(hookQueue) <= MaxPending
    /\ activeListeners' = SubSeq(activeListeners, 1, n - 1)
                            \o SubSeq(activeListeners, n + 1, Len(activeListeners))
    /\ unsubscribe' = IF n = Len(activeListeners) /\ unsubscribe = "live"
                      THEN "ended" ELSE unsubscribe
    /\ hookToast' = ErrorToast(err)
    /\ hookQueue' = Append(hookQueue, setBooksLoading(FALSE))
    /\ UNCHANGED <<hookUser, authLoading, dbAvailable, hookMounted, hookBooks, booksLoading>>

\* the component that uses the hook is unmounted: the cleanup runs
HookUnmount ==
    /\ hookMounted
    /\ hookMounted' = FALSE
    /\ activeListeners' = Cleanup(activeListeners, unsubscribe)
    /\ unsubscribe' = "undefined"
    /\ hookQueue' = <<>>
    /\ UNCHANGED <<hookUser, authLoading, dbAvailable, hookBooks, booksLoading, hookToast>>

notListenerVars ==
    <<wordVars, viewVars, errorVars, rulesVars, audioVars, analyzeVars, appVars, homeVars, uploadVars, popoverVars>>
NotListenerAtRest ==
    WordAtRest /\ ViewInit /\ ErrorAtRest /\ RulesInit /\ AudioInit /\ AnalyzeInit /\ AppAtRest /\ HomeAtRest /\ UploadAtRest /\ PopoverAtRest

\* the hook after its first render and effect, before useAuth has loaded
InitListener ==
    /\ hookUser = NoUser
    /\ authLoading = TRUE
    /\ dbAvailable \in BOOLEAN
    /\ hookMounted = TRUE
    /\ hookBooks = {}
    /\ booksLoading = TRUE
    /\ hookQueue = <<setBooks({}), setBooksLoading(FALSE)>>
    /\ activeListeners = <<>>
    /\ unsubscribe = "undefined"
    /\ hookToast = NoToast
    /\ NotListenerAtRest

NextListener ==
    \/ \E u \in Users \cup {NoUser} : AuthChanges(u) /\ UNCHANGED notListenerVars
    \/ HookRender /\ UNCHANGED notListenerVars
    \/ \E n \in 1..Len(activeListeners), docs \in SUBSET BookIds :
           Snapshot(n, docs) /\ UNCHANGED notListenerVars
    \/ \E n \in 1..Len(activeListeners), err \in ListenerErrors :
           ListenerError(n, err) /\ UNCHANGED notListenerVars
    \/ HookUnmount /\ UNCHANGED notListenerVars

SpecListener == InitListener /\ [][NextListener]_vars

-----------------------------------------------------------------------------
(* Vocabulary of the properties *)

IsUpperChar(c) == \E n \in DOMAIN UpperLetters : UpperLetters[n] = c

\* the characters of s that are not whitespace, in order
RECURSIVE StripWhitespace(_)
StripWhitespace(s) ==
    IF s = <<>> THEN <<>>
    ELSE IF IsSpaceChar(Head(s)) THEN StripWhitespace(Tail(s))
    ELSE <<Head(s)>> \o StripWhitespace(Tail(s))

\* s with its first character upper-cased
UpperFirst(s) == IF s = <<>> THEN <<>> ELSE <<CharToUpper(s[1])>> \o Tail(s)

\* s with every run of two or more whitespace characters replaced by one
\* space: the characters after the first of a run go, the first becomes a space
RECURSIVE SquashFrom(_, _)
SquashFrom(s, n) ==
    IF n > Len(s) THEN <<>>
    ELSE IF IsSpaceChar(s[n]) /\ n > 1 /\ IsSpaceChar(s[n - 1]) THEN SquashFrom(s, n + 1)
    ELSE IF IsSpaceChar(s[n]) /\ n < Len(s) /\ IsSpaceChar(s[n + 1]) THEN <<" ">> \o SquashFrom(s, n + 1)
    ELSE <<s[n]>> \o SquashFrom(s, n + 1)
SquashRuns(s) == SquashFrom(s, 1)

\* the pieces ps[n], ps[n + 1], ... written one after the other, without and
\* with a single space between them
RECURSIVE ConcatFrom(_, _)
ConcatFrom(ps, n) == IF n > Len(ps) THEN <<>> ELSE ps[n] \o ConcatFrom(ps, n + 1)
RECURSIVE JoinFrom(_, _)
JoinFrom(ps, n) ==
    IF n > Len(ps) THEN <<>>
    ELSE IF n = Len(ps) THEN ps[n]
    ELSE ps[n] \o <<" ">> \o JoinFrom(ps, n + 1)

\* the input is one dictionary word cut by single spaces into three to five
\* alphabetic pieces, none of them a dictionary word
InputPieces == Tokenize(input)
IsSplitWord ==
    /\ Len(InputPieces) \in 3..5
    /\ \A n \in 1..Len(InputPieces) : IsAlphabetic(InputPieces[n])
    /\ input = JoinFrom(InputPieces, 1)
    /\ toLowerCase(ConcatFrom(InputPieces, 1)) \in wordSet
    /\ \A n \in 1..Len(InputPieces) : toLowerCase(InputPieces[n]) \notin wordSet

\* every run of the last two or more pieces is a dictionary word, and no two
\* adjacent pieces before the last make one
SuffixesAreWords ==
    /\ \A n \in 1..(Len(InputPieces) - 1) : toLowerCase(ConcatFrom(InputPieces, n)) \in wordSet
    /\ \A n \in 1..(Len(InputPieces) - 2) :
           toLowerCase(InputPieces[n] \o InputPieces[n + 1]) \notin wordSet

\* the single pass applied n times in sequence, each time to the result of the
\* time before
RECURSIVE PassN(_, _, _)
PassN(n, s, dict) ==
    IF n = 0 THEN s ELSE fixSplitWordsWithWordList(PassN(n - 1, s, dict), dict)

\* out[j], out[j + 1], ... are the tokens toks[n], ..., toks[end - 1] in order,
\* each output token one trimmed token or two adjacent trimmed tokens written
\* together, and every token in exactly one output token
RECURSIVE Grouped(_, _, _, _, _)
Grouped(out, toks, j, n, end) ==
    IF j > Len(out) THEN n = end
    ELSE \/ /\ n < end
            /\ out[j] = trim(toks[n])
            /\ Grouped(out, toks, j + 1, n + 1, end)
         \/ /\ n + 1 < end
            /\ out[j] = trim(toks[n]) \o trim(toks[n + 1])
            /\ Grouped(out, toks, j + 1, n + 2, end)

\* the input is two or more alphabetic pieces separated by single spaces; no
\* piece but the last and no run of adjacent pieces that stops before the last
\* is a dictionary word; every run of two or more pieces up to the last is one
ConcatRange(ps, a, b) == ConcatFrom(SubSeq(ps, a, b), 1)
IsCascade ==
    LET ps == InputPieces
    IN  /\ Len(ps) >= 2
        /\ \A n \in 1..Len(ps) : IsAlphabetic(ps[n])
        /\ input = JoinFrom(ps, 1)
        /\ \A n \in 1..(Len(ps) - 1) : toLowerCase(ps[n]) \notin wordSet
        /\ \A n \in 1..(Len(ps) - 1) : toLowerCase(ConcatFrom(ps, n)) \in wordSet
        /\ \A a \in 1..Len(ps), b \in 1..Len(ps) :
               (a < b /\ b < Len(ps)) => toLowerCase(ConcatRange(ps, a, b)) \notin wordSet

\* the text after n passes of the cascade: the last n + 1 pieces are one token
\* (all pieces when there are no more than n + 1), the pieces before it stand
\* alone, the first letter is upper-case and a '.' ends the text
CascadeAfter(n) ==
    LET m == IF Len(InputPieces) - n > 1 THEN Len(InputPieces) - n ELSE 1
    IN  UpperFirst(JoinFrom(SubSeq(InputPieces, 1, m - 1)
                              \o <<ConcatFrom(InputPieces, m)>>, 1)) \o <<".">>

\* the last pass is about to return and has merged nothing
LastPassReturns == pc = "return" /\ passes = MAX_ITERATIONS
MergedNothing == Len(fixedTokens) = Len(tokens)

-----------------------------------------------------------------------------
(* Properties *)

\* C1: fixWordsWithIterations applied to the empty string returns the empty
\* string.
C1_EmptyInputGivesEmpty == (pc = "done" /\ input = <<>>) => fixedText = <<>>

\* C2 as stated: for every input and every dictionary the result of the four
\* passes is a fixed point of the single pass.
C2_AlwaysFixedPoint ==
    LastPassReturns => fixSplitWordsWithWordList(sentence, wordSet) = sentence

\* C2, amended: when the fourth pass merges no pair of tokens, its result is a
\* fixed point of the single pass: a fifth pass returns the same string.
C2_FixedPointOnceNothingMerges ==
    (LastPassReturns /\ MergedNothing) =>
        fixSplitWordsWithWordList(sentence, wordSet) = sentence

\* C2 witness: the fourth pass merges nothing after earlier passes reassembled
\* a word cut into three or more pieces.
C2_Witness ==
    /\ LastPassReturns /\ MergedNothing
    /\ input \in SplitTexts /\ Len(InputPieces) >= 3
    /\ sentence = UpperFirst(LongWord) \o <<".">>

\* C3: a token whose lower-case form is in the dictionary is never
\* concatenated with the token that follows it: the scan emits it alone and
\* advances by one, whatever follows.
C3_NoFalseMerge ==
    [][(pc = "scan" /\ i <= Len(tokens) /\ toLowerCase(trim(tokens[i])) \in wordSet)
         => (fixedTokens' = Append(fixedTokens, trim(tokens[i])) /\ i' = i + 1)]_vars

\* C3 witness: a dictionary word was emitted alone although the token after
\* it is alphabetic and the two together are a dictionary word as well.
C3_Witness ==
    /\ pc = "scan" /\ i = 2 /\ Len(tokens) = 2
    /\ fixedTokens = <<tokens[1]>>
    /\ toLowerCase(tokens[1]) \in wordSet
    /\ IsAlphabetic(tokens[2])
    /\ toLowerCase(tokens[1] \o tokens[2]) \in wordSet

\* C4: when the scan is at a token current followed by a token next, both
\* alphabetic, current lower-cased not in the dictionary and current + next
\* lower-cased in it, the scan emits current + next in its original casing as
\* one token and advances by two; in every other case it emits current and
\* advances by one.  (current and next are the trimmed tokens.)
C4_MergeCorrectness ==
    [][(pc = "scan" /\ i <= Len(tokens)) =>
         LET current == trim(tokens[i])
             next == trim(tokens[i + 1])
         IN  IF /\ i < Len(tokens)
                /\ IsAlphabetic(current)
                /\ IsAlphabetic(next)
                /\ toLowerCase(current) \notin wordSet
                /\ toLowerCase(current \o next) \in wordSet
             THEN fixedTokens' = Append(fixedTokens, current \o next) /\ i' = i + 2
             ELSE fixedTokens' = Append(fixedTokens, current) /\ i' = i + 1]_vars

\* C4 witness: two pieces were merged into one token that keeps its upper-case
\* first letter, found in the dictionary through its lower-case form.
C4_Witness ==
    /\ pc = "scan" /\ i = 3 /\ Len(tokens) >= 2
    /\ fixedTokens = <<tokens[1] \o tokens[2]>>
    /\ IsUpperChar(tokens[1][1])
    /\ toLowerCase(tokens[1] \o tokens[2]) \in wordSet

C6_TerminalPunctuation ==
    [][(pc = "format" /\ k > Len(fixedTokens)) =>
         /\ sentence' # <<>>
         /\ sentence'[Len(sentence')] \in {".", "!", "?"}
         /\ sentence' = IF sentence # <<>> /\ sentence[Len(sentence)] \in {".", "!", "?"}
                        THEN sentence
                        ELSE sentence \o <<".">>]_vars

\* C6 witness: a sentence that ends with '!' was returned without a '.'.
C6_Witness ==
    /\ pc = "return"
    /\ fixedTokens = << <<"a">>, <<"!">> >>
    /\ sentence = <<"A", "!">>

\* C7: a token that is one of . ! ? , ; : ' - is appended to the text built so
\* far without its trailing whitespace, with no space before it; any other
\* token after the first is appended after exactly one space.
C7_PunctuationAttachment ==
    [][(pc = "format" /\ k <= Len(fixedTokens)) =>
         LET word == fixedTokens[k]
         IN  IF word \in {<<".">>, <<"!">>, <<"?">>, <<",">>, <<";">>, <<":">>, <<"'">>, <<"-">>}
             THEN sentence' = trimEnd(sentence) \o word
             ELSE k > 1 => sentence' = sentence \o <<" ">> \o word]_vars

\* C7 witness: the tokens A , b were formatted to "A, b."
C7_Witness ==
    /\ pc = "return"
    /\ fixedTokens = << <<"A">>, <<",">>, <<"b">> >>
    /\ sentence = <<"A", ",", " ", "b", ".">>

\* C8: the characters other than whitespace of the result of a pass are those
\* of its argument, in order, but for the first one, which may be upper-cased,
\* and for one '.' that may follow them.
C8_ContentPreserved ==
    pc = "return" =>
        LET arg == StripWhitespace(Argument)
        IN  StripWhitespace(sentence) \in
                {arg, UpperFirst(arg), arg \o <<".">>, UpperFirst(arg) \o <<".">>}

\* C8 witness: a pass that merged two pieces, upper-cased the first letter and
\* appended a '.' kept an upper-case letter further on as it was.
C8_Witness ==
    /\ pc = "return" /\ passes = 0
    /\ Len(fixedTokens) < Len(tokens)
    /\ UpperFirst(StripWhitespace(input)) # StripWhitespace(input)
    /\ StripWhitespace(sentence) = UpperFirst(StripWhitespace(input)) \o <<".">>
    /\ \E n \in 2..Len(sentence) : IsUpperChar(sentence[n])

\* C9: the result of a pass is the result of the pass on its argument with
\* every run of two or more whitespace characters replaced by one space, and
\* no token of the scan is exactly one space.
C9_WhitespaceCollapsing ==
    /\ pc = "return" => sentence = fixSplitWordsWithWordList(SquashRuns(Argument), wordSet)
    /\ pc = "scan" => \A n \in 1..Len(tokens) : tokens[n] # <<" ">>

\* C9 witness: a pass on an argument with a run of three spaces between two
\* words returns what it returns for one space.
C9_Witness ==
    /\ pc = "return" /\ passes = 0
    /\ input = <<"a", " ", " ", " ", "b">>
    /\ sentence = fixSplitWordsWithWordList(<<"a", " ", "b">>, wordSet)
    /\ Len(fixedTokens) = 1

\* the order of the positions within a pass
PhaseOf(p) ==
    CASE p = "call" -> 0 [] p = "scan" -> 1 [] p = "format" -> 2
      [] p = "return" -> 3 [] p = "done" -> 4

\* a step finishes a pass, or moves on within the pass, or advances the scan
\* index by one or two within the token list, or the loop index of the formatter
C10_Progress ==
    \/ passes' = passes + 1 /\ passes' <= 1 + MAX_ITERATIONS
    \/ passes' = passes /\ PhaseOf(pc') > PhaseOf(pc)
    \/ /\ passes' = passes /\ pc = "scan" /\ pc' = "scan" /\ tokens' = tokens
       /\ i' \in {i + 1, i + 2} /\ i' <= Len(tokens) + 1
    \/ /\ passes' = passes /\ pc = "format" /\ pc' = "format" /\ fixedTokens' = fixedTokens
       /\ k' = k + 1 /\ k' <= Len(fixedTokens) + 1

\* a step is possible: StartPass has no condition but its position
CanStep ==
    \/ pc = "call"
    \/ ENABLED (MergeStep \/ KeepStep \/ FormatNothing \/ StartFormat)
    \/ ENABLED (FormatStep \/ FinishFormat)
    \/ ENABLED ReturnPass

\* C10: every pass terminates, its scan index increasing by one or two up to
\* the end of the token list, and fixWordsWithIterations returns: before the
\* return a step is always possible (nothing raises), every step makes
\* progress in a bounded measure, and the return comes after
\* 1 + MAX_ITERATIONS passes.
C10_TotalAndTerminating ==
    /\ [](pc # "done" => CanStep)
    /\ [][C10_Progress]_vars
    /\ [](pc = "done" => passes = 1 + MAX_ITERATIONS)

\* C10 witness: fixWordsWithIterations has returned after passes that merged.
C10_Witness ==
    /\ pc = "done"
    /\ input \in SplitTexts /\ Len(InputPieces) >= 2
    /\ fixedText = UpperFirst(LongWord) \o <<".">>

\* C11: fixWordsWithIterations returns the single pass applied exactly
\* 1 + MAX_ITERATIONS = 4 times in sequence to its argument, each pass on the
\* result of the pass before; it returns after that many passes and no fewer,
\* whether or not a pass changed anything.
C11_FixedPassCount ==
    /\ (pc \in {"call", "done"} /\ passes > 0) => fixedText = PassN(passes, input, wordSet)
    /\ pc = "done" <=> passes = 1 + MAX_ITERATIONS
    /\ pc = "done" => fixedText = PassN(4, input, wordSet)

\* C11 witness: fixWordsWithIterations has returned after four passes of which
\* the first and the second changed the text and the fourth changed nothing.
C11_Witness ==
    /\ pc = "done" /\ passes = 4
    /\ PassN(1, input, wordSet) # input
    /\ PassN(2, input, wordSet) # PassN(1, input, wordSet)
    /\ PassN(4, input, wordSet) = PassN(3, input, wordSet)
    /\ fixedText = PassN(4, input, wordSet)

\* C12: within one merge pass every token of the scan ends up in exactly one
\* emitted token, an emitted token is one token or two adjacent tokens written
\* together (tokens as the scan trims them), and a step of the scan only
\* appends one emitted token made of the one or two tokens at the scan index:
\* what was emitted before, a merged token included, is never touched again,
\* and the scan never goes back.
C12_GreedyForwardOnly ==
    /\ [](pc = "scan" => Grouped(fixedTokens, tokens, 1, 1, i))
    /\ [](pc \in {"format", "return"} =>
            Grouped(fixedTokens, tokens, 1, 1, Len(tokens) + 1))
    /\ [][(pc = "scan" /\ pc' = "scan") =>
            /\ tokens' = tokens
            /\ \/ /\ i' = i + 1
                  /\ fixedTokens' = Append(fixedTokens, trim(tokens[i]))
               \/ /\ i' = i + 2 /\ i < Len(tokens)
                  /\ fixedTokens' = Append(fixedTokens, trim(tokens[i]) \o trim(tokens[i + 1]))]_vars

\* C12 witness: a pass over six pieces merged the first two and the last two;
\* the first merged token and the third piece make a dictionary word, and so
\* do the fourth piece and the second merged token, and both pieces were
\* emitted alone.
C12_Witness ==
    /\ pc = "return" /\ passes = 0
    /\ Len(tokens) = 6 /\ Len(fixedTokens) = 4
    /\ fixedTokens[1] = tokens[1] \o tokens[2]
    /\ fixedTokens[2] = tokens[3]
    /\ toLowerCase(fixedTokens[1] \o tokens[3]) \in wordSet
    /\ fixedTokens[3] = tokens[4]
    /\ fixedTokens[4] = tokens[5] \o tokens[6]
    /\ toLowerCase(tokens[4] \o fixedTokens[4]) \in wordSet

\* C20: for alphabetic pieces p1..pk (k >= 2) separated by single spaces, no
\* piece before the last and no run of adjacent pieces other than the runs
\* p_j..p_k a dictionary word, every run p_j..p_k (j < k) a dictionary word:
\* each pass absorbs exactly one more piece from the left into the last token,
\* and fixWordsWithIterations returns the single token p1..pk (first letter
\* upper-cased, '.' appended) exactly when k <= 5.
C20_RightToLeftCascade ==
    /\ (passes > 0 /\ pc \in {"call", "done"} /\ IsCascade) => fixedText = CascadeAfter(passes)
    /\ (pc = "return" /\ IsCascade /\ passes < Len(InputPieces) - 1) =>
           Len(fixedTokens) = Len(tokens) - 1
    /\ (pc = "done" /\ IsCascade) =>
           (fixedText = UpperFirst(ConcatFrom(InputPieces, 1)) \o <<".">>
               <=> Len(InputPieces) <= 5)

\* C20 witness: six such pieces: after the four passes the first piece still
\* stands alone before the token made of the other five.
C20_Witness ==
    /\ pc = "done" /\ IsCascade
    /\ Len(InputPieces) = 6
    /\ fixedText = UpperFirst(InputPieces[1]) \o <<" ">> \o ConcatFrom(InputPieces, 2) \o <<".">>

\* C13: no step of a call modifies the dictionary, and whatever the steps of
\* the other call that come in between, a call returns the single pass applied
\* 1 + MAX_ITERATIONS times to its own argument with the dictionary: the string
\* it returns when it runs alone.
C13_ConcurrencySafety ==
    /\ [][wordSet' = wordSet]_vars
    /\ [](pc = "done" => fixedText = PassN(1 + MAX_ITERATIONS, input, wordSet))
    /\ [](parked.pc = "done" =>
            parked.fixedText = PassN(1 + MAX_ITERATIONS, parked.input, wordSet))

\* C13 witness: a call that merged returned while the other call, on the same
\* text, has merged in the scan of its second pass.
C13_Witness ==
    /\ pc = "done"
    /\ fixedText = <<"A", "b", "c", ".">>
    /\ parked.input = input
    /\ parked.pc = "scan" /\ parked.passes = 1 /\ parked.i = 3

\* the last call made on the hook, and the last two being toggles
LastCall == history[Len(history)]
TwoToggles ==
    Len(history) = 2 /\ history[1].op = "toggleView" /\ history[2].op = "toggleView"

\* C14: the mode starts as 'library'; once rendered, the mode after
\* goToLibrary is 'library' and after goToReader (with or without a book) or
\* setViewMode('reader') it is 'reader', whatever the mode before; viewMode is
\* always 'library' or 'reader' and exactly one of isLibraryView and
\* isReaderView is true, the one that matches viewMode.
C14_ViewModeState ==
    /\ history = <<>> => viewMode = "library"
    /\ (history # <<>> /\ LastCall.op = "goToLibrary") => InEffect = "library"
    /\ (history # <<>> /\ LastCall.op = "goToReader") => InEffect = "reader"
    /\ (history # <<>> /\ LastCall.op = "setViewMode") => InEffect = LastCall.arg
    /\ (history # <<>> /\ pending = <<>> /\ LastCall.op = "goToLibrary") => viewMode = "library"
    /\ (history # <<>> /\ pending = <<>> /\ LastCall.op = "goToReader") => viewMode = "reader"
    /\ (history # <<>> /\ pending = <<>> /\ LastCall.op = "setViewMode") => viewMode = LastCall.arg
    /\ viewMode \in {"library", "reader"}
    /\ isLibraryView = (viewMode = "library")
    /\ isReaderView = (viewMode = "reader")
    /\ isLibraryView # isReaderView

\* C14 witness: goToReader with a book and then goToLibrary, called before the
\* hook rendered again, left the rendered mode 'library'.
C14_Witness ==
    /\ Len(history) = 2 /\ pending = <<>>
    /\ history[1].op = "goToReader" /\ history[1].arg \in BookTitles
    /\ history[2].op = "goToLibrary" /\ history[2].from = "reader"
    /\ viewMode = "library" /\ isLibraryView /\ ~isReaderView

\* C15: toggleView switches to the other mode, so that once rendered the mode
\* after two successive toggleView calls is the mode before the first.
C15_ToggleTwiceRestores ==
    (TwoToggles /\ pending = <<>>) => viewMode = history[1].from

\* the categories in the order of the tests, each with its patterns
Precedence == <<AUTHENTICATION, FIREBASE, AI, FILE_PROCESSING, NETWORK, VALIDATION>>
PatternsOf(category) ==
    CASE category = AUTHENTICATION -> authPatterns
      [] category = FIREBASE -> {"Firebase", "firestore", "auth/"}
      [] category = AI -> aiPatterns
      [] category = FILE_PROCESSING -> filePatterns
      [] category = NETWORK -> networkPatterns
      [] category = VALIDATION -> {"validation", "Invalid input"}
Occurs(category, message) == \E pattern \in PatternsOf(category) : includes(message, pattern)
FirstOccurring(message) ==
    LET found == {n \in DOMAIN Precedence : Occurs(Precedence[n], message)}
    IN  IF found = {} THEN UNKNOWN ELSE Precedence[Least(found)]
Returned == userFriendlyError # NoResult

\* the first category in the order of the tests that is the category of the
\* context or has a pattern in the message
FirstGivenOrOccurring(given, message) ==
    LET found == {n \in DOMAIN Precedence :
                     Precedence[n] = given \/ Occurs(Precedence[n], message)}
    IN  IF found = {} THEN UNKNOWN ELSE Precedence[Least(found)]

\* a pattern of a category that is tested before the given one occurs in the
\* message; every category is tested before 'unknown'
EarlierOccurs(given, message) ==
    \E n \in DOMAIN Precedence :
        /\ Occurs(Precedence[n], message)
        /\ \A m \in DOMAIN Precedence : Precedence[m] = given => n < m

\* C16 as stated: handleError with an explicit category in its context
\* returns a UserFriendlyError of that same category, for every error value
\* and every message.
C16_ExplicitCategoryKept ==
    (Returned /\ context.category # Absent) => userFriendlyError.category = context.category

\* C16, amended: with an explicit category the result category is the first
\* category, in the order authentication, firebase, ai, file_processing,
\* network, validation, that is the explicit one or has a pattern in the
\* message, and 'unknown' when there is none; it is the explicit category
\* exactly when no pattern of a category tested before it occurs in the
\* message, for every error value.
C16_ExplicitCategoryUnlessEarlierPattern ==
    (Returned /\ context.category # Absent) =>
        /\ userFriendlyError.category =
               FirstGivenOrOccurring(context.category, errorMessage(error))
        /\ userFriendlyError.category = context.category
               <=> ~EarlierOccurs(context.category, errorMessage(error))

\* C16 witness: a string with a validation and a network pattern, thrown with
\* the explicit category firebase, came out as firebase.
C16_Witness ==
    /\ Returned /\ context.category = FIREBASE
    /\ error.kind = "string"
    /\ error.message = <<"Invalid input", "fetch failed">>
    /\ userFriendlyError.category = FIREBASE
    /\ userFriendlyError.title = "Service Unavailable"

\* C17: without a category the result category is the first of authentication,
\* firebase, ai, file_processing, network, validation of which a pattern occurs
\* in the message, and 'unknown' with the title 'Something went wrong' and
\* shouldReport true when none occurs.
C17_DetectionPrecedence ==
    (Returned /\ context.category = Absent) =>
        /\ userFriendlyError.category = FirstOccurring(errorMessage(error))
        /\ (\A n \in DOMAIN Precedence : ~Occurs(Precedence[n], errorMessage(error))) =>
               /\ userFriendlyError.category = UNKNOWN
               /\ userFriendlyError.title = "Something went wrong"
               /\ userFriendlyError.shouldReport = TRUE

\* C17 witness: a message with a network pattern and then an authentication
\* pattern, thrown without a category, came out as authentication.
C17_Witness ==
    /\ Returned /\ context.category = Absent
    /\ error.kind = "Error"
    /\ error.message = <<"fetch failed", "auth/weak-password">>
    /\ userFriendlyError.category = AUTHENTICATION
    /\ userFriendlyError.title = "Authentication Error"

\* C18: a read, an update or a delete of a book document is permitted only to
\* a signed-in user whose uid is the document's userId, a create only when the
\* new document's userId is the creator's uid, and no permitted write changes
\* the userId of a document; so every document's userId is the uid of the user
\* who created it, and nobody was given another user's document to read or
\* changed it.
C18_BookIsolation ==
    /\ [](lastRequest.allowed =>
            /\ lastRequest.by \in Users
            /\ lastRequest.op \in {"create", "update"} =>
                   books[lastRequest.book].userId = lastRequest.by)
    /\ [][\A b \in BookIds :
            /\ (books[b] # NoDoc /\ books'[b] # books[b]) =>
                   /\ lastRequest'.by = books[b].userId
                   /\ books'[b] # NoDoc => books'[b].userId = books[b].userId
            /\ (books[b] = NoDoc /\ books'[b] # NoDoc) =>
                   books'[b].userId = lastRequest'.by]_vars
    /\ [](\A b \in BookIds : books[b] # NoDoc =>
            books[b].userId \in Users /\ books[b].userId = creator[b])
    /\ [](\A r \in readBy : r.by = r.owner)
    /\ [](\A r \in changedBy : r.by = r.owner)

\* C18 witness: user-1 created, read and updated a document, and the request
\* of user-2 to update it with its userId set to user-2 was denied.
C18_Witness ==
    /\ books["book-1"].userId = "user-1" /\ creator["book-1"] = "user-1"
    /\ [by |-> "user-1", owner |-> "user-1"] \in readBy
    /\ [by |-> "user-1", owner |-> "user-1"] \in changedBy
    /\ books["book-2"].userId = "user-2"
    /\ lastRequest = [op |-> "update", by |-> "user-2", book |-> "book-1", allowed |-> FALSE]

\* the parts of a path between its "/"
RECURSIVE Segments(_, _)
Segments(path, segment) ==
    IF path = <<>> THEN <<segment>>
    ELSE IF Head(path) = "/" THEN <<segment>> \o Segments(Tail(path), <<>>)
    ELSE Segments(Tail(path), Append(segment, Head(path)))

\* the handler is generating speech or writing the object
Generating == audioPc \in {"tts", "buffer", "bucket", "upload"}

\* C19: the route generates speech and writes a storage object only after the
\* bearer token of the request was verified and its body validated (a text of
\* at least 10 characters and a non-empty bookId), and every object written is
\* at audiobooks_generated/<uid of the verified token>/..., never in the
\* folder of another user.
C19_AudioUserScoped ==
    /\ Generating =>
           /\ AuthTokenOf(request.authorization) \in ValidTokens
           /\ userId = UidOf(AuthTokenOf(request.authorization))
           /\ request.body.json
           /\ request.body.text # Undefined /\ Len(request.body.text) >= 10
           /\ request.body.bookId # Undefined /\ Len(request.body.bookId) >= 1
           /\ data = [text |-> request.body.text, bookId |-> request.body.bookId]
    /\ \A o \in objects :
           /\ o.bearer \in ValidTokens
           /\ Len(o.content) >= 10
           /\ Len(Segments(o.path, <<>>)) >= 3
           /\ Segments(o.path, <<>>)[1] = <<"audiobooks_generated">>
           /\ Segments(o.path, <<>>)[2] = <<UidOf(o.bearer)>>

\* C19 witness: with the token of user-1 an object was written for a book id
\* that is the uid of user-2 and one for a book id with a path to the folder
\* of user-2 in it, sent with the userId of user-2 in the body; both are in
\* the folder of user-1.
C19_Witness ==
    /\ response.status = 200
    /\ request.body.json /\ request.body.userId = "user-2"
    /\ \E o1 \in objects, o2 \in objects :
           /\ o1.bearer = <<"token-1">> /\ o2.bearer = <<"token-1">>
           /\ Segments(o1.path, <<>>)[2] = <<"user-1">>
           /\ Segments(o1.path, <<>>)[3] = <<"user-2", "_audio_", "1700000000000", ".mp3">>
           /\ Segments(o2.path, <<>>)[2] = <<"user-1">>
           /\ Segments(o2.path, <<>>)[3] = <<"..">>

-----------------------------------------------------------------------------
(* The analyze-text route *)

\* the request answered last
Answered == analyzePc = "idle" /\ analyzeServed > 0

\* s occurs in the trace of the handler
Did(s) == \E n \in 1..Len(analyzeTrace) : analyzeTrace[n] = s

\* C21: a request without a bearer token is answered 401 and its body is not
\* read; otherwise a body that is not JSON, or is without a text that is a
\* string, is answered 400; otherwise the answer is 200 and its text is
\* fixWordsWithIterations of the text sent.  fixWordsWithIterations is not
\* called for a request answered 401 or 400.
C21_AnalyzeOrder ==
    Answered =>
        LET req == analyzeRequest
            noToken == Falsy(AuthTokenOf(req.authorization))
        IN  /\ noToken => analyzeResponse.status = 401 /\ ~Did("json")
            /\ ~noToken /\ req.body.kind # "string" => analyzeResponse.status = 400
            /\ ~noToken /\ req.body.kind = "string" =>
                   /\ analyzeResponse.status = 200
                   /\ analyzeResponse.text = PassN(MAX_ITERATIONS + 1, req.body.text, wordSet)
            /\ analyzeResponse.status \in {400, 401} => ~Did("fixWordsWithIterations")

\* a second request with a text whose pieces are merged is answered 200 after
\* a first one answered 400
C21_Witness ==
    /\ Answered
    /\ analyzeServed = 2
    /\ analyzeResponse.status = 200
    /\ analyzeResponse.text # analyzeRequest.body.text
    /\ Len(analyzeRequest.body.text) > 0
    /\ Did("fixWordsWithIterations")

-----------------------------------------------------------------------------
(* AppContent and handleDeleteBook *)

\* the steps of handleDeleteBook for a book, in order
DeleteSteps(b) ==
    <<"deleteDoc", "deleteObject(storageUrl)">>
        \o (IF HasAudio(b) THEN <<"deleteObject(audioStorageUrl)">> ELSE <<>>)

IsPrefix(s, t) == Len(s) <= Len(t) /\ SubSeq(t, 1, Len(s)) = s

\* C22: the steps of handleDeleteBook are made in order (the document, the
\* original file, the audio file only for a book that has one); without user,
\* db or storage no step is made and nothing is deleted; after a step that
\* fails no other step is made, the handler does not call setSelectedBook and
\* the toast is the error toast, not 'Book Deleted'; when all steps succeed
\* the document and the files of the book are gone and the toast is 'Book
\* Deleted'.
C22_DeleteInOrder ==
    deletion.pc # "none" =>
        /\ IsPrefix(deletion.steps, DeleteSteps(deletion.book))
        /\ services # Services =>
               /\ deletion.steps = <<>>
               /\ library = BookIds /\ storageFiles = AllFiles
               /\ toasts.variant = "destructive"
        /\ deletion.outcome = "failed" =>
               /\ deletion.failedAt = Len(deletion.steps)
               /\ ~deletion.cleared
               /\ toasts.variant = "destructive" /\ toasts.title # "Book Deleted"
        /\ deletion.outcome = "deleted" =>
               /\ deletion.steps = DeleteSteps(deletion.book)
               /\ deletion.book \notin library
               /\ \A f \in storageFiles : f.book # deletion.book
               /\ toasts.title = "Book Deleted"
        /\ deletion.outcome \in {"running", "deleted"} => deletion.failedAt = 0

\* the deletion of the book with an audio file fails at its second step, after
\* the document is gone: the files stay and the error toast is shown
C22_Witness ==
    /\ deletion.book = "book-1"
    /\ deletion.outcome = "failed"
    /\ deletion.failedAt = 2
    /\ "book-1" \notin library
    /\ [book |-> "book-1", kind |-> "audio"] \in storageFiles
    /\ toasts.variant = "destructive"

\* C23: when handleDeleteBook has deleted a book, it calls setSelectedBook(null)
\* exactly if the deleted book is the selected one at that moment.
C23_SelectionAfterDelete ==
    deletion.outcome = "deleted" =>
        (deletion.cleared <=> (deletion.selectedThen = deletion.book))

\* every queued update is rendered
Rendered == pending = <<>> /\ selectedPending = <<>>

\* C24: once rendered, the view mode is 'reader' exactly when a book is
\* selected.
C24_ReaderIffSelected ==
    Rendered => ((viewMode = "reader") <=> (selectedBook # "null"))

-----------------------------------------------------------------------------
(* HomeContent and AiCard *)

\* C25: the text content of the selected book is never the text, or the error
\* message, of the extraction of another book: loadTextContent of book X
\* writes into selectedBook only while X is the selected book, and leaves
\* selectedBook as it is otherwise.
C25_TextOfSelectedBook ==
    /\ homeBook.textContent \in
           {<<>>, TextOfBook(homeBook.id), ErrorTextOfBook(homeBook.id)}
    /\ homeBook.id = "null" => homeBook.textContent = <<>>

\* the extraction of the second book has come back and its update waits in
\* the queue behind a selection of the first book
C25_Witness ==
    \E n \in 1..Len(homeQueue) :
        /\ homeQueue[n].op = "text"
        /\ homeQueue[n].id = "book-2"
        /\ ApplyAll([book |-> homeBook, view |-> homeView, loading |-> extractionLoading,
                     audio |-> aiAudio, fresh |-> FALSE],
                    SubSeq(homeQueue, 1, n - 1)).book.id = "book-1"

\* C26: neither the audioStorageUrl of the selected book nor the audioUrl of
\* AiCard's audioState is the URL generated for another book.
C26_AudioOfSelectedBook ==
    /\ homeBook.audioStorageUrl \in {<<>>, AudioUrlOf(homeBook.id)}
    /\ aiMounted => aiAudio.audioUrl \in {<<>>, AudioUrlOf(homeBook.id)}

-----------------------------------------------------------------------------
(* FileUpload *)

\* C27: when a file selection has been handled and the queued updates are
\* rendered, isUploading is false and uploadProgress is null, whether the file
\* was refused, uploaded, failed to upload or the callback failed; the
\* callback is called only for a selection whose file is a PDF and was
\* uploaded.
C27_UploadAlwaysResets ==
    /\ uploadCall.pc = "done" /\ uploadQueue = <<>> =>
           ~isUploading /\ uploadProgress = NoProgress
    /\ \A c \in callbackCalls : c.file.type = "application/pdf" /\ c \in storedFiles

\* a second selection is handled: its upload succeeded and the callback
\* failed; the state is rendered
C27_Witness ==
    /\ uploadCall.pc = "done"
    /\ uploadCall.n = 2
    /\ uploadQueue = <<>>
    /\ [file |-> uploadCall.file, n |-> 2] \in callbackCalls
    /\ uploadToast = "Upload Failed"
    /\ ~isUploading

\* no call is in flight and no update waits for a render
PopoverStopped == explainCalls = <<>> /\ popoverQueue = <<>>

\* C28: at most one generateExplanation call is in flight, and once the
\* popover is open the component reaches a state with no call in flight and
\* none about to be made, whatever the calls return
C28_RequestLoopStops ==
    /\ [](Len(explainCalls) <= 1)
    /\ (popoverMounted /\ isOpen) ~> PopoverStopped

\* a snapshot callback or an error callback of a listener runs
ListenerCallback ==
    \/ \E n \in 1..Len(activeListeners), docs \in SUBSET BookIds : Snapshot(n, docs)
    \/ \E n \in 1..Len(activeListeners), err \in ListenerErrors : ListenerError(n, err)

\* C29: at most one snapshot listener is active, and none after the unmount;
\* without a signed-in user books is, or is about to be rendered as, the empty
\* list and booksLoading false; and after every snapshot and every listener
\* error the next render has booksLoading false
C29_ListenerLifecycle ==
    /\ [](Len(activeListeners) <= 1)
    /\ [](~hookMounted => activeListeners = <<>>)
    /\ []((hookMounted /\ hookUser = NoUser) =>
            /\ activeListeners = <<>>
            /\ HookState(hookQueue) = [books |-> {}, booksLoading |-> FALSE])
    /\ [][ListenerCallback =>
             ApplyBooks([books |-> hookBooks', booksLoading |-> booksLoading'],
                        hookQueue').booksLoading = FALSE]_vars

\* C29 witness: the listener of the signed-in user is the only one, its
\* snapshot is rendered and the books are no longer loading
C29_Witness ==
    /\ hookMounted
    /\ hookUser = "user-2"
    /\ activeListeners = <<"user-2">>
    /\ hookBooks = BookIds
    /\ ~booksLoading

====
